---- MODULE Spec2Model ----
(***************************************************************************)
(* State-machine model of the glittr-core indexer: the key-value store,    *)
(* the transaction-scoped allocation engine of Updater (unallocate_inputs, *)
(* move_asset_allocation, allocate_new_asset, commit_outputs), the message *)
(* dispatch of Updater::index, and the mint and burn executors.            *)
(*                                                                         *)
(* Amounts are u128 (u32 in mint.rs) in the source and every sum uses      *)
(* saturating_add.  The amounts of the model stay far below 2^32, where    *)
(* saturating_add is +; saturating_sub is modelled exactly.                *)
(***************************************************************************)
EXTENDS Integers, Sequences, FiniteSets, TLC

\* ------------------------------------------------------------------ bounds
\* Transactions processed after the history, indexed or simulated.
MaxTx == 1
\* Largest number of outputs of a transaction.
MaxOut == 2
\* Largest number of inputs of a transaction.
MaxIn == 2
\* Transactions per block: transaction n sits at (block, tx_index) =
\* ((n-1) \div TxPerBlock + 1, (n-1) % TxPerBlock).
TxPerBlock == 2
\* Largest number of entries of a transfer message.
MaxTransfers == 2
\* Largest balance of a bucket entry the allocation engine starts from.
MaxAmount == 2
\* Transactions indexed by each of the two indexers that are compared.
MaxReindex == 5

VARIABLES
    database,           \* Database: one map per key prefix, key -> stored value
    is_read_only,       \* Updater.is_read_only
    unallocated_inputs, \* Updater.unallocated_inputs : Allocation
    allocated_outputs,  \* Updater.allocated_outputs : vout -> Allocation
    pc,                 \* where the driver stands in the current transaction
    tx,                 \* the transaction being processed
    block_tx,           \* its (block, tx_index)
    outcome,            \* the MessageDataOutcome last returned for it
    ntx,                \* transactions processed so far in this behaviour
    before,             \* the database when the current transaction started
    call,               \* the Updater method last called directly, with its arguments
    database2           \* the store of a second indexer fed the same transactions

vars == <<database, is_read_only, unallocated_inputs, allocated_outputs,
          pc, tx, block_tx, outcome, ntx, before, call, database2>>

\* ------------------------------------------------------------ option, maps
None == [some |-> FALSE]
Some(x) == [some |-> TRUE, v |-> x]

\* HashMap: a function whose domain is the set of keys present.
EmptyMap == [k \in {} |-> 0]
MapInsert(m, k, x) == [j \in DOMAIN m \cup {k} |-> IF j = k THEN x ELSE m[j]]
MapRemove(m, k) == [j \in DOMAIN m \ {k} |-> m[j]]
MapGetOr(m, k, d) == IF k \in DOMAIN m THEN m[k] ELSE d

Min(a, b) == IF a < b THEN a ELSE b
saturating_sub(a, b) == IF a > b THEN a - b ELSE 0
saturating_add(a, b) == a + b

\* The orders in which a HashMap with key set S can be iterated.
RECURSIVE Orderings(_)
Orderings(S) ==
    IF S = {} THEN {<<>>}
    ELSE UNION {{<<k>> \o r : r \in Orderings(S \ {k})} : k \in S}

\* ------------------------------------------------------------------- flaws
NoFlaw == [kind |-> "None"]
Flaw(k) == [kind |-> k]
OutputOverflow(indices) == [kind |-> "OutputOverflow", indices |-> indices]
\* The call aborts (a Rust panic): nothing is returned.
Panic == [kind |-> "panic"]

\* ---------------------------------------------------------------- Database
MESSAGE_PREFIX == "message"
TRANSACTION_TO_BLOCK_TX_PREFIX == "tx_to_blocktx"
ASSET_LIST_PREFIX == "asset_list"
ASSET_CONTRACT_DATA_PREFIX == "asset_contract_data"
COLLATERALIZED_CONTRACT_DATA == "pool_data"
SPEC_CONTRACT_OWNED_PREFIX == "spec_contract_owned"

EmptyDatabase ==
    [message |-> EmptyMap, tx_to_blocktx |-> EmptyMap, asset_list |-> EmptyMap,
     asset_contract_data |-> EmptyMap, pool_data |-> EmptyMap,
     spec_contract_owned |-> EmptyMap]

NotFound == [found |-> FALSE]
Found(x) == [found |-> TRUE, value |-> x]

put(db, prefix, key, value) == [db EXCEPT ![prefix] = MapInsert(@, key, value)]
get(db, prefix, key) ==
    IF key \in DOMAIN db[prefix] THEN Found(db[prefix][key]) ELSE NotFound
delete(db, prefix, key) == [db EXCEPT ![prefix] = MapRemove(@, key)]

\* serde_json of AssetList { list: HashMap }: the entries in the map's
\* iteration order ord (an ordering of a superset of the keys).
serialize_asset_list(list, ord) ==
    LET keys == SelectSeq(ord, LAMBDA k : k \in DOMAIN list)
    IN [i \in 1..Len(keys) |-> <<keys[i], list[keys[i]]>>]

deserialize_asset_list(bytes) ==
    [k \in {bytes[i][1] : i \in 1..Len(bytes)} |->
        LET i == CHOOSE j \in 1..Len(bytes) : bytes[j][1] = k IN bytes[i][2]]

\* ------------------------------------------------------------- Allocation
DefaultAllocation == [asset_list |-> EmptyMap, spec_owned |-> <<>>]

Outpoint(txid, vout) == <<txid, vout>>

\* ------------------------------------------------- Updater: store accessors
\* Mutant of delete_asset: the record is left in the store.
delete_asset_skipped(self, outpoint) == self

delete_asset(self, outpoint) ==
    IF ~self.is_read_only
    THEN [self EXCEPT !.database = delete(@, ASSET_LIST_PREFIX, outpoint)]
    ELSE self

get_asset_list(self, outpoint) ==
    LET result == get(self.database, ASSET_LIST_PREFIX, outpoint)
    IN IF result.found THEN deserialize_asset_list(result.value) ELSE EmptyMap

\* Mutant of set_asset_list: the write ignores is_read_only.
set_asset_list_unguarded(self, outpoint, asset_list, ord) ==
    [self EXCEPT !.database =
        put(@, ASSET_LIST_PREFIX, outpoint, serialize_asset_list(asset_list, ord))]

set_asset_list(self, outpoint, asset_list, ord) ==
    IF ~self.is_read_only
    THEN [self EXCEPT !.database =
            put(@, ASSET_LIST_PREFIX, outpoint, serialize_asset_list(asset_list, ord))]
    ELSE self

get_spec_contract_owned(self, outpoint) ==
    LET result == get(self.database, SPEC_CONTRACT_OWNED_PREFIX, outpoint)
    IN IF result.found THEN result.value ELSE <<>>

delete_spec_contract_owned(self, outpoint) ==
    IF ~self.is_read_only
    THEN [self EXCEPT !.database = delete(@, SPEC_CONTRACT_OWNED_PREFIX, outpoint)]
    ELSE self

set_spec_contract_owned(self, outpoint, spec_owned) ==
    IF ~self.is_read_only
    THEN [self EXCEPT !.database = put(@, SPEC_CONTRACT_OWNED_PREFIX, outpoint, spec_owned)]
    ELSE self

\* ------------------------------------------------------ allocation engine
\* unallocate_inputs, the inputs tx.input[i..] still to fold.
RECURSIVE unallocate_from(_, _, _)
unallocate_from(self, input, i) ==
    IF i > Len(input) THEN self
    ELSE
        LET outpoint == input[i]
            asset_list == get_asset_list(self, outpoint)
            folded == [k \in DOMAIN self.unallocated_inputs.asset_list \cup DOMAIN asset_list |->
                         IF k \in DOMAIN asset_list
                         THEN saturating_add(
                                MapGetOr(self.unallocated_inputs.asset_list, k, 0),
                                asset_list[k])
                         ELSE self.unallocated_inputs.asset_list[k]]
            s1 == delete_asset(
                    [self EXCEPT !.unallocated_inputs.asset_list = folded], outpoint)
            specs == get_spec_contract_owned(s1, outpoint)
            s2 == delete_spec_contract_owned(
                    [s1 EXCEPT !.unallocated_inputs.spec_owned = @ \o specs], outpoint)
        IN unallocate_from(s2, input, i + 1)

unallocate_inputs(self, t) == unallocate_from(self, t.input, 1)

allocate_new_asset(self, vout, contract_id, amount) ==
    LET allocation == MapGetOr(self.allocated_outputs, vout, DefaultAllocation)
        previous_amount == MapGetOr(allocation.asset_list, contract_id, 0)
        credited == [allocation EXCEPT !.asset_list =
                        MapInsert(@, contract_id, saturating_add(previous_amount, amount))]
    IN [self EXCEPT !.allocated_outputs = MapInsert(@, vout, credited)]

allocate_new_spec(self, vout, spec_contract_id) ==
    LET allocation == MapGetOr(self.allocated_outputs, vout, DefaultAllocation)
        owned == [allocation EXCEPT !.spec_owned = Append(@, spec_contract_id)]
    IN [self EXCEPT !.allocated_outputs = MapInsert(@, vout, owned)]

\* Mutant of move_asset_allocation: the credit is max_amount, not the
\* amount debited.
move_asset_allocation_uncapped(self, vout, contract_id, max_amount) ==
    IF contract_id \notin DOMAIN self.unallocated_inputs.asset_list THEN self
    ELSE
        LET allocation == self.unallocated_inputs.asset_list[contract_id]
            left == saturating_sub(allocation, max_amount)
            debited == [self EXCEPT !.unallocated_inputs.asset_list =
                          IF left = 0 THEN MapRemove(@, contract_id)
                          ELSE MapInsert(@, contract_id, left)]
        IN IF max_amount = 0 THEN self
           ELSE allocate_new_asset(debited, vout, contract_id, max_amount)

move_asset_allocation(self, vout, contract_id, max_amount) ==
    IF contract_id \notin DOMAIN self.unallocated_inputs.asset_list THEN self
    ELSE
        LET allocation == self.unallocated_inputs.asset_list[contract_id]
            amount == Min(max_amount, allocation)
            left == saturating_sub(allocation, amount)
            debited == [self EXCEPT !.unallocated_inputs.asset_list =
                          IF left = 0 THEN MapRemove(@, contract_id)
                          ELSE MapInsert(@, contract_id, left)]
        IN IF amount = 0 THEN self
           ELSE allocate_new_asset(debited, vout, contract_id, amount)

is_op_return_index(output) == output.op_return

\* Mutant of first_non_op_return_index: the first output, whatever it is.
first_output_index(t) == IF Len(t.output) > 0 THEN Some(0) ELSE None

first_non_op_return_index(t) ==
    IF \E i \in 1..Len(t.output) : ~is_op_return_index(t.output[i])
    THEN Some((CHOOSE i \in 1..Len(t.output) :
                 /\ ~is_op_return_index(t.output[i])
                 /\ \A j \in 1..(i - 1) : is_op_return_index(t.output[j])) - 1)
    ELSE None

validate_pointer(pointer, t) ==
    IF pointer >= Len(t.output) THEN Flaw("PointerOverflow")
    ELSE IF is_op_return_index(t.output[pointer + 1]) THEN Flaw("InvalidPointer")
    ELSE NoFlaw

RECURSIVE move_all(_, _, _, _)
move_all(self, vout, asset_list, keys) ==
    IF keys = {} THEN self
    ELSE LET k == CHOOSE c \in keys : TRUE
         IN move_all(move_asset_allocation(self, vout, k, asset_list[k]),
                     vout, asset_list, keys \ {k})

RECURSIVE allocate_specs(_, _, _, _)
allocate_specs(self, vout, specs, i) ==
    IF i > Len(specs) THEN self
    ELSE allocate_specs(allocate_new_spec(self, vout, specs[i]), vout, specs, i + 1)

\* Mutant of commit_fallback: without a fallback output the unallocated
\* balances go to output 0.
commit_fallback_always(self, t) ==
    LET fallback == first_non_op_return_index(t)
        vout == IF fallback.some THEN fallback.v ELSE 0
        asset_list == self.unallocated_inputs.asset_list
        moved == move_all(self, vout, asset_list, DOMAIN asset_list)
    IN allocate_specs(moved, vout, self.unallocated_inputs.spec_owned, 1)

\* commit_outputs up to the writes: the fallback moves.
commit_fallback(self, t) ==
    LET fallback == first_non_op_return_index(t)
    IN IF fallback.some
       THEN LET asset_list == self.unallocated_inputs.asset_list
                moved == move_all(self, fallback.v, asset_list, DOMAIN asset_list)
            IN allocate_specs(moved, fallback.v, self.unallocated_inputs.spec_owned, 1)
       ELSE self

RECURSIVE persist_outputs(_, _, _, _, _)
persist_outputs(self, txid, allocations, vouts, ord) ==
    IF vouts = {} THEN self
    ELSE LET vout == CHOOSE v \in vouts : TRUE
             outpoint == Outpoint(txid, vout)
             s1 == set_asset_list(self, outpoint, allocations[vout].asset_list, ord[vout])
             s2 == set_spec_contract_owned(s1, outpoint, allocations[vout].spec_owned)
         IN persist_outputs(s2, txid, allocations, vouts \ {vout}, ord)

\* ord[vout]: the iteration order of allocated_outputs[vout].asset_list when
\* it is serialized.
commit_outputs(self, t, ord) ==
    LET staged == commit_fallback(self, t)
        written == persist_outputs(staged, t.txid, staged.allocated_outputs,
                                   DOMAIN staged.allocated_outputs, ord)
    IN [written EXCEPT !.unallocated_inputs = DefaultAllocation,
                       !.allocated_outputs = EmptyMap]

\* The iteration orders the maps of allocations can be serialized in.
RECURSIVE IterationOrders(_, _)
IterationOrders(allocations, vouts) ==
    IF vouts = {} THEN {EmptyMap}
    ELSE LET vout == CHOOSE v \in vouts : TRUE
         IN {MapInsert(rest, vout, o) :
               rest \in IterationOrders(allocations, vouts \ {vout}),
               o \in Orderings(DOMAIN allocations[vout].asset_list)}

\* ---------------------------------------------------------------- transfers
RECURSIVE transfers_from(_, _, _, _, _)
transfers_from(self, t, transfers, i, overflow_i) ==
    IF i > Len(transfers)
    THEN [self |-> self,
          flaw |-> IF overflow_i # <<>> THEN OutputOverflow(overflow_i) ELSE NoFlaw]
    ELSE IF transfers[i].output >= Len(t.output)
         THEN transfers_from(self, t, transfers, i + 1, Append(overflow_i, i - 1))
         ELSE transfers_from(
                move_asset_allocation(self, transfers[i].output, transfers[i].asset,
                                      transfers[i].amount),
                t, transfers, i + 1, overflow_i)

\* transfers with the bound test of line 369 written ">" instead of ">=".
RECURSIVE transfers_from_beyond(_, _, _, _, _)
transfers_from_beyond(self, t, transfers, i, overflow_i) ==
    IF i > Len(transfers)
    THEN [self |-> self,
          flaw |-> IF overflow_i # <<>> THEN OutputOverflow(overflow_i) ELSE NoFlaw]
    ELSE IF transfers[i].output > Len(t.output)
         THEN transfers_from_beyond(self, t, transfers, i + 1, Append(overflow_i, i - 1))
         ELSE transfers_from_beyond(
                move_asset_allocation(self, transfers[i].output, transfers[i].asset,
                                      transfers[i].amount),
                t, transfers, i + 1, overflow_i)

transfers_beyond(self, t, list) == transfers_from_beyond(self, t, list, 1, <<>>)

\* transfers that moves nothing once one entry overflows.
transfers_all_or_nothing(self, t, list) ==
    IF \E i \in 1..Len(list) : list[i].output >= Len(t.output)
    THEN [self |-> self, flaw |-> transfers_from(self, t, list, 1, <<>>).flaw]
    ELSE transfers_from(self, t, list, 1, <<>>)

\* transfers that serves the entries last to first.
transfers_reversed(self, t, list) ==
    transfers_from(self, t, [i \in 1..Len(list) |-> list[Len(list) + 1 - i]], 1, <<>>)

transfers(self, t, list) == transfers_from(self, t, list, 1, <<>>)

\* ----------------------------------------------------------------- messages
\* OpReturnMessage { transfer, contract_creation, contract_call }
OpReturnMessage(transfer, contract_creation, contract_call) ==
    [transfer |-> transfer, contract_creation |-> contract_creation,
     contract_call |-> contract_call]

TxTypeTransfer(asset, output, amount) ==
    [asset |-> asset, output |-> output, amount |-> amount]

\* A mint-only asset with the free-mint mechanism.
FreeMintContract(supply_cap, amount_per_mint, live_time) ==
    [kind |-> "free_mint", supply_cap |-> supply_cap,
     amount_per_mint |-> amount_per_mint, live_time |-> live_time]

\* The same with the end_time every mint-only asset of message.rs carries.
FreeMintContractUntil(supply_cap, amount_per_mint, live_time, end_time) ==
    [kind |-> "free_mint", supply_cap |-> supply_cap,
     amount_per_mint |-> amount_per_mint, live_time |-> live_time,
     end_time |-> end_time]

PreallocatedContract == [kind |-> "preallocated"]

ContractCreation(contract_type) == [contract_type |-> contract_type, spec |-> None]

MintOption(pointer) == [pointer |-> pointer, oracle_message |-> None]
MintOptionWith(pointer, oracle_message) ==
    [pointer |-> pointer, oracle_message |-> oracle_message]

\* InputAsset
GlittrAsset(contract_id) == [kind |-> "glittr_asset", id |-> contract_id]
RawBTC == [kind |-> "raw_btc"]
Metaprotocol == [kind |-> "metaprotocol"]

\* A mint-only asset with the purchase mechanism (AssetContractPurchaseBurnSwap).
PurchaseBurnSwap(input_asset, transfer_scheme, transfer_ratio_type) ==
    [kind |-> "purchase", input_asset |-> input_asset,
     transfer_scheme |-> transfer_scheme, transfer_ratio_type |-> transfer_ratio_type]
TransferSchemeBurn == [kind |-> "burn"]
TransferSchemePurchase(bitcoin_address) == [kind |-> "purchase", address |-> bitcoin_address]
RatioFixed(numerator, denominator) == [kind |-> "fixed", ratio |-> <<numerator, denominator>>]
RatioOracle(pubkey, asset_id) ==
    [kind |-> "oracle", pubkey |-> pubkey, setting |-> [asset_id |-> asset_id]]

\* OracleMessageSigned: a signature is the key that made it and the message
\* it was made over.
OracleMessage(asset_id, out_value, input_outpoint, min_in_value) ==
    [asset_id |-> asset_id, out_value |-> out_value,
     input_outpoint |-> input_outpoint, min_in_value |-> min_in_value]
SignedBy(key, message) == [signer |-> key, signed |-> message]
OracleMessageSigned(signature, message) == [signature |-> signature, message |-> message]
verify(pubkey, message, signature) ==
    signature.signer = pubkey /\ signature.signed = message

MintCall(contract, mint_option) ==
    [contract |-> contract, call_type |-> [kind |-> "mint", option |-> mint_option]]
BurnCall(contract) == [contract |-> contract, call_type |-> [kind |-> "burn"]]
SwapCall(contract) == [contract |-> contract, call_type |-> [kind |-> "swap"]]

Ok(x) == [ok |-> TRUE, v |-> x]
Err(flaw) == [ok |-> FALSE, flaw |-> flaw]

MessageDataOutcome(message, flaw) == [message |-> message, flaw |-> flaw]

\* Static validation of a contract creation (the contract types' validate):
\* a free mint's amount_per_mint is positive and within its supply cap.
validate(message) ==
    IF message.contract_creation.some
    THEN LET c == message.contract_creation.v.contract_type
         IN IF c.kind = "free_mint"
            THEN IF c.amount_per_mint = 0 THEN Flaw("OverflowAmountPerMint")
                 ELSE IF c.supply_cap.some /\ c.amount_per_mint > c.supply_cap.v
                      THEN Flaw("OverflowAmountPerMint")
                      ELSE NoFlaw
            ELSE NoFlaw
    ELSE NoFlaw

get_message(self, contract_id) ==
    LET result == get(self.database, MESSAGE_PREFIX, contract_id)
    IN IF result.found
       THEN IF result.value.flaw # NoFlaw THEN Err(result.value.flaw)
            ELSE IF result.value.message.some THEN Ok(result.value.message.v)
                 ELSE Err(Flaw("MessageInvalid"))
       ELSE Err(Flaw("ContractNotFound"))

\* ------------------------------------------------------------------- mint
DefaultFreeMintData == [minted |-> 0]

get_asset_contract_data(self, contract_id) ==
    get(self.database, ASSET_CONTRACT_DATA_PREFIX, contract_id)

set_asset_contract_data(self, contract_id, asset_contract_data) ==
    IF ~self.is_read_only
    THEN [self EXCEPT !.database =
            put(@, ASSET_CONTRACT_DATA_PREFIX, contract_id, asset_contract_data)]
    ELSE self

get_free_mint_data(self, contract_id) ==
    LET data == get_asset_contract_data(self, contract_id)
    IN IF data.found THEN data.value ELSE DefaultFreeMintData

\* The keys of the asset list update_asset_list_for_mint writes.
mint_asset_list_keys(self, contract_id, outpoint) ==
    DOMAIN get_asset_list(self, outpoint) \cup {contract_id}

update_asset_list_for_mint(self, contract_id, outpoint, amount, ord) ==
    LET asset_list == get_asset_list(self, outpoint)
        previous_amount == MapGetOr(asset_list, contract_id, 0)
    IN set_asset_list(self, outpoint,
                      MapInsert(asset_list, contract_id,
                                saturating_add(previous_amount, amount)),
                      ord)

update_asset_contract_data_for_free_mint(self, contract_id, free_mint_data) ==
    set_asset_contract_data(self, contract_id, free_mint_data)

\* Mutant of free_mint_within_cap: a mint that reaches the cap is refused.
free_mint_below_cap(asset, minted) ==
    asset.supply_cap.some =>
        saturating_add(minted * asset.amount_per_mint, asset.amount_per_mint)
            < asset.supply_cap.v

\* The supply check of mint_free_mint: TRUE when the mint stays within the cap.
free_mint_within_cap(asset, minted) ==
    asset.supply_cap.some =>
        saturating_add(minted * asset.amount_per_mint, asset.amount_per_mint)
            <= asset.supply_cap.v

mint_free_mint(self, asset, t, btx, contract_id, mint_option, ord) ==
    IF asset.live_time > btx[1]
    THEN [self |-> self, flaw |-> Flaw("LiveTimeNotReached")]
    ELSE
        LET free_mint_data == get_free_mint_data(self, contract_id)
            minted_data == [free_mint_data EXCEPT !.minted = saturating_add(@, 1)]
            outpoint == Outpoint(t.txid, mint_option.pointer)
        IN IF ~free_mint_within_cap(asset, free_mint_data.minted)
           THEN [self |-> self, flaw |-> Flaw("SupplyCapExceeded")]
           ELSE IF mint_option.pointer >= Len(t.output)
                THEN [self |-> self, flaw |-> Flaw("PointerOverflow")]
                ELSE [self |-> update_asset_contract_data_for_free_mint(
                                 update_asset_list_for_mint(
                                    self, contract_id, outpoint,
                                    asset.amount_per_mint, ord),
                                 contract_id, minted_data),
                      flaw |-> NoFlaw]

\* The glittr-asset input of a purchase: the balance of asset_contract_id
\* under the outpoint of tx.input[i..], each input assigning the total.
RECURSIVE pbs_input_value(_, _, _, _, _)
pbs_input_value(self, t, asset_contract_id, i, total_in_value_glittr_asset) ==
    IF i > Len(t.input) THEN total_in_value_glittr_asset
    ELSE pbs_input_value(self, t, asset_contract_id, i + 1,
                         MapGetOr(get_asset_list(self, t.input[i]), asset_contract_id, 0))

\* What an output that receives the payment adds to total_received_value.
pbs_received(pbs, output, total_in_value_glittr_asset, total_received_value) ==
    CASE pbs.input_asset.kind = "raw_btc" -> output.value
      [] pbs.input_asset.kind = "glittr_asset" -> total_in_value_glittr_asset
      [] OTHER -> total_received_value

\* TransferScheme::Burn: the loop over tx.output from position pos on.
RECURSIVE pbs_burn_outputs(_, _, _, _, _, _, _)
pbs_burn_outputs(pbs, t, mint_option, total_in, pos, total_received_value, vout) ==
    IF pos >= Len(t.output)
    THEN [total_received_value |-> total_received_value, vout |-> vout]
    ELSE
      LET output == t.output[pos + 1]
      IN IF is_op_return_index(output)
         THEN LET received == pbs_received(pbs, output, total_in, total_received_value)
              IN IF mint_option.pointer # pos
                 THEN [total_received_value |-> received,
                       vout |-> Some(mint_option.pointer)]
                 ELSE pbs_burn_outputs(pbs, t, mint_option, total_in, pos + 1,
                                       received, vout)
         ELSE pbs_burn_outputs(pbs, t, mint_option, total_in, pos + 1,
                               total_received_value,
                               IF ~vout.some THEN Some(pos) ELSE vout)

\* TransferScheme::Purchase: the loop over tx.output from position pos on.
RECURSIVE pbs_purchase_outputs(_, _, _, _, _)
pbs_purchase_outputs(pbs, t, total_in, pos, total_received_value) ==
    IF pos >= Len(t.output) THEN total_received_value
    ELSE
      LET output == t.output[pos + 1]
          pays == ~is_op_return_index(output)
                  /\ output.address = pbs.transfer_scheme.address
      IN pbs_purchase_outputs(
            pbs, t, total_in, pos + 1,
            IF pays THEN pbs_received(pbs, output, total_in, total_received_value)
            ELSE total_received_value)

\* out_value as u32: the amounts of the model stay below 2^31, where the
\* truncation to 32 bits changes nothing.
as_u32(x) == x

mint_purchase_burn_swap(self, pbs, t, contract_id, mint_option, ord) ==
    LET total_in_value_glittr_asset ==
            IF pbs.input_asset.kind = "glittr_asset"
            THEN pbs_input_value(self, t, pbs.input_asset.id, 1, 0)
            ELSE 0
        scanned ==
            IF pbs.transfer_scheme.kind = "burn"
            THEN pbs_burn_outputs(pbs, t, mint_option, total_in_value_glittr_asset,
                                  0, 0, None)
            ELSE [total_received_value |->
                     pbs_purchase_outputs(pbs, t, total_in_value_glittr_asset, 0, 0),
                  vout |-> Some(mint_option.pointer)]
        total_received_value == scanned.total_received_value
        vout == scanned.vout
        ratio == pbs.transfer_ratio_type
        signed == mint_option.oracle_message.v
        verified ==
            /\ mint_option.oracle_message.some
            /\ ratio.setting.asset_id = signed.message.asset_id
            /\ ~(total_received_value < signed.message.min_in_value)
            /\ \E i \in 1..Len(t.input) : t.input[i] = signed.message.input_outpoint
            /\ verify(ratio.pubkey, signed.message, signed.signature)
        out_value ==
            IF ratio.kind = "fixed"
            THEN (total_received_value * ratio.ratio[1]) \div ratio.ratio[2]
            ELSE signed.message.out_value
    IN IF ratio.kind = "fixed" /\ ratio.ratio[2] = 0
       THEN [self |-> self, flaw |-> Panic]
       ELSE IF ratio.kind = "oracle" /\ ~verified
       THEN [self |-> self, flaw |-> Flaw("OracleMintFailed")]
       ELSE IF ~vout.some
       THEN [self |-> self, flaw |-> Panic]
       ELSE IF vout.v > Len(t.output)
       THEN [self |-> self, flaw |-> Flaw("PointerOverflow")]
       ELSE [self |-> update_asset_list_for_mint(
                        self, contract_id, Outpoint(t.txid, vout.v),
                        as_u32(out_value), ord),
             flaw |-> NoFlaw]

\* mint reading the stored message whatever flaw its outcome carries.
mint_any_outcome(self, t, btx, contract_id, mint_option, ord) ==
    LET result == get(self.database, MESSAGE_PREFIX, contract_id)
    IN IF ~result.found \/ ~result.value.message.some
       THEN [self |-> self, flaw |-> Flaw("ContractNotFound")]
       ELSE IF ~result.value.message.v.contract_creation.some
            THEN [self |-> self, flaw |-> Flaw("ContractNotMatch")]
            ELSE LET asset == result.value.message.v.contract_creation.v.contract_type
                 IN CASE asset.kind = "free_mint" ->
                           mint_free_mint(self, asset, t, btx, contract_id, mint_option, ord)
                      [] asset.kind = "purchase" ->
                           mint_purchase_burn_swap(self, asset, t, contract_id,
                                                   mint_option, ord)
                      [] OTHER ->
                           [self |-> self, flaw |-> Flaw("NotImplemented")]

mint(self, t, btx, contract_id, mint_option, ord) ==
    LET message == get_message(self, contract_id)
    IN IF ~message.ok THEN [self |-> self, flaw |-> message.flaw]
       ELSE IF ~message.v.contract_creation.some
            THEN [self |-> self, flaw |-> Flaw("ContractNotMatch")]
            ELSE LET asset == message.v.contract_creation.v.contract_type
                 IN CASE asset.kind = "free_mint" ->
                           mint_free_mint(self, asset, t, btx, contract_id, mint_option, ord)
                      [] asset.kind = "purchase" ->
                           mint_purchase_burn_swap(self, asset, t, contract_id,
                                                   mint_option, ord)
                      [] asset.kind = "preallocated" ->
                           [self |-> self, flaw |-> Flaw("NotImplemented")]
                      [] OTHER ->
                           [self |-> self, flaw |-> Flaw("ContractNotMatch")]

\* ------------------------------------------------------------------- burn
\* A mint-burn asset: collateralized is None or Some of its input assets and
\* mint structure, return_collateral is None or Some(ReturnCollateral).
MintBurnAssetContract(live_time, end_time, collateralized, return_collateral) ==
    [kind |-> "mba", live_time |-> live_time, end_time |-> end_time,
     collateralized |-> collateralized, return_collateral |-> return_collateral]

Proportional(input_assets, ratio_model) ==
    [input_assets |-> input_assets,
     mint_structure |-> [kind |-> "proportional", ratio_model |-> ratio_model]]

ReturnCollateral == [oracle_setting |-> None]

MintBurnOption(pointer) == [pointer |-> pointer, oracle_message |-> None]

CollateralizedAssetData(amounts, total_supply) ==
    [amounts |-> amounts, total_supply |-> total_supply]

SCALE == 1000000

\* check_live_time
check_live_time(live_time, end_time, block) ==
    IF block < live_time THEN Flaw("LiveTimeNotReached")
    ELSE IF end_time.some /\ block >= end_time.v THEN Flaw("LiveTimeExpired")
    ELSE NoFlaw

DefaultAssetContractData == [minted_supply |-> 0, burned_supply |-> 0]

\* validate_and_update_supply_cap(contract_id, None, amount, is_mint = false):
\* a burn adds the burned amount to the contract's burned_supply.
validate_and_update_supply_cap(self, contract_id, amount) ==
    LET data == get_asset_contract_data(self, contract_id)
        current == IF data.found THEN data.value ELSE DefaultAssetContractData
    IN [self |-> set_asset_contract_data(
                    self, contract_id,
                    [current EXCEPT !.burned_supply = saturating_add(@, amount)]),
        flaw |-> NoFlaw]

\* The share and return amounts of a proportional burn (the ConstantProduct
\* and ConstantSum arms compute them alike).
burn_share(burned_amount, total_supply) == (burned_amount * SCALE) \div total_supply
burn_return_amount(existing, share) == (existing * share) \div SCALE

\* The Proportional arm of burn_return_collateral: the Updater, the flaw and
\* the out_values.
burn_proportional(self, collateralized, contract_id, burned_amount) ==
    LET a0 == collateralized.input_assets[1]
        a1 == collateralized.input_assets[2]
        pool_data == get(self.database, COLLATERALIZED_CONTRACT_DATA, contract_id)
        fail(k) == [self |-> self, flaw |-> k, out_values |-> <<>>]
    IN IF a0.kind # "glittr_asset" \/ a1.kind # "glittr_asset" THEN fail(Flaw("PoolNotFound"))
       ELSE IF ~pool_data.found THEN fail(Flaw("PoolNotFound"))
       ELSE IF a0.id \notin DOMAIN pool_data.value.amounts THEN fail(Flaw("PoolNotFound"))
       ELSE IF a1.id \notin DOMAIN pool_data.value.amounts THEN fail(Flaw("PoolNotFound"))
       ELSE IF pool_data.value.total_supply = 0 THEN fail(Panic)
       ELSE
         LET existing_pool_amounts0 == pool_data.value.amounts[a0.id]
             existing_pool_amounts1 == pool_data.value.amounts[a1.id]
             share == burn_share(burned_amount, pool_data.value.total_supply)
             return_amount0 == burn_return_amount(existing_pool_amounts0, share)
             return_amount1 == burn_return_amount(existing_pool_amounts1, share)
             updated ==
                CollateralizedAssetData(
                    MapInsert(
                        MapInsert(pool_data.value.amounts, a0.id,
                                  saturating_sub(existing_pool_amounts0, return_amount0)),
                        a1.id, saturating_sub(existing_pool_amounts1, return_amount1)),
                    saturating_sub(pool_data.value.total_supply, burned_amount))
         IN IF return_amount0 = 0 \/ return_amount1 = 0
            THEN fail(Flaw("InsufficientOutputAmount"))
            ELSE [self |-> IF ~self.is_read_only
                           THEN [self EXCEPT !.database =
                                   put(@, COLLATERALIZED_CONTRACT_DATA, contract_id, updated)]
                           ELSE self,
                  flaw |-> NoFlaw,
                  out_values |-> <<return_amount0, return_amount1>>]

\* allocate return collateral: out_values[pos] of input_assets[pos] to pointer.
RECURSIVE allocate_out_values(_, _, _, _, _)
allocate_out_values(self, pointer, input_assets, out_values, pos) ==
    IF pos > Len(out_values) THEN self
    ELSE allocate_out_values(
            IF input_assets[pos].kind = "glittr_asset"
            THEN allocate_new_asset(self, pointer, input_assets[pos].id, out_values[pos])
            ELSE self,
            pointer, input_assets, out_values, pos + 1)

\* ---- collateral accounts
\* CollateralAccount; ltv is a Fraction <<numerator, denominator>>.
CollateralAccount(total_collateral_amount, share_amount, ltv, amount_outstanding) ==
    [total_collateral_amount |-> total_collateral_amount, share_amount |-> share_amount,
     ltv |-> ltv, amount_outstanding |-> amount_outstanding]

\* The mint structure Account, and a ReturnCollateral with an oracle.
AccountStructure(input_assets) ==
    [input_assets |-> input_assets, mint_structure |-> [kind |-> "account"]]
OracleSetting(pubkey, max_staleness) == [pubkey |-> pubkey, max_staleness |-> max_staleness]
ReturnCollateralWith(oracle_setting) == [oracle_setting |-> oracle_setting]

\* MintBurnOption with its oracle message and pointer_to_key; the oracle
\* message of an account, whose fields but block_height are options.
MintBurnOptionTo(pointer, oracle_message, pointer_to_key) ==
    [pointer |-> pointer, oracle_message |-> oracle_message,
     pointer_to_key |-> pointer_to_key]
AccountOracleMessage(input_outpoint, ltv, outstanding, out_value, block_height) ==
    [input_outpoint |-> input_outpoint, ltv |-> ltv, outstanding |-> outstanding,
     out_value |-> out_value, block_height |-> block_height]

AbsDiff(a, b) == IF a > b THEN a - b ELSE b - a

\* validate_oracle_message: the signature, then the staleness window.
validate_oracle_message(oracle_message_signed, oracle_setting, btx) ==
    IF ~verify(oracle_setting.pubkey, oracle_message_signed.message,
               oracle_message_signed.signature)
    THEN Flaw("OracleMintFailed")
    ELSE IF AbsDiff(btx[1], oracle_message_signed.message.block_height)
              > oracle_setting.max_staleness
    THEN Flaw("OracleMintStale")
    ELSE NoFlaw

\* allocate_new_collateral_accounts: the account goes to the allocation of
\* the output, under the key of its contract.
allocate_new_collateral_accounts(self, vout, collateral_account, contract_id) ==
    LET allocation == MapGetOr(self.allocated_outputs, vout, DefaultAllocation)
        accounts == IF "collateral_accounts" \in DOMAIN allocation
                    THEN allocation.collateral_accounts ELSE EmptyMap
    IN [self EXCEPT !.allocated_outputs =
          MapInsert(@, vout,
                    [asset_list |-> allocation.asset_list,
                     spec_owned |-> allocation.spec_owned,
                     collateral_accounts |->
                        MapInsert(accounts, contract_id, collateral_account)])]

\* The end of the Account arm: the account is relocated to pointer_to_key.
account_relocated(self, t, contract_id, burn_option, collateral_account) ==
    IF ~burn_option.pointer_to_key.some
    THEN [self |-> self, flaw |-> Flaw("PointerKeyNotFound"), out_values |-> <<>>]
    ELSE IF validate_pointer(burn_option.pointer_to_key.v, t) # NoFlaw
    THEN [self |-> self, flaw |-> validate_pointer(burn_option.pointer_to_key.v, t),
          out_values |-> <<>>]
    ELSE [self |-> allocate_new_collateral_accounts(
                      self, burn_option.pointer_to_key.v, collateral_account, contract_id),
          flaw |-> NoFlaw, out_values |-> <<>>]

\* verify burned asset: the remainder of the burned amount over the
\* oracle's out_value goes to the pointer or back to the unallocated inputs.
account_remainder(self, t, contract_id, burn_option, collateral_account, burned_remainder) ==
    IF burned_remainder = 0
    THEN account_relocated(self, t, contract_id, burn_option, collateral_account)
    ELSE IF ~burn_option.pointer.some
    THEN account_relocated(
            [self EXCEPT !.unallocated_inputs.asset_list =
                MapInsert(@, contract_id, burned_remainder)],
            t, contract_id, burn_option, collateral_account)
    ELSE IF validate_pointer(burn_option.pointer.v, t) # NoFlaw
    THEN [self |-> self, flaw |-> validate_pointer(burn_option.pointer.v, t),
          out_values |-> <<>>]
    ELSE account_relocated(
            allocate_new_asset(self, burn_option.pointer.v, contract_id, burned_remainder),
            t, contract_id, burn_option, collateral_account)

\* LTV and outstanding always updated by the oracle, then the burned asset
\* is verified against out_value.
account_updated(self, t, contract_id, burn_option, collateral_account, burned_amount, message) ==
    IF ~message.ltv.some
    THEN [self |-> self, flaw |-> Flaw("LtvMustBeUpdated"), out_values |-> <<>>]
    ELSE IF ~message.outstanding.some
    THEN [self |-> self, flaw |-> Flaw("OutstandingMustBeUpdated"), out_values |-> <<>>]
    ELSE IF ~message.out_value.some
    THEN [self |-> self, flaw |-> Flaw("OutValueNotFound"), out_values |-> <<>>]
    ELSE IF burned_amount < message.out_value.v
    THEN [self |-> self, flaw |-> Flaw("BurnValueIncorrect"), out_values |-> <<>>]
    ELSE account_remainder(
            self, t, contract_id, burn_option,
            [collateral_account EXCEPT !.ltv = message.ltv.v,
                                       !.amount_outstanding = message.outstanding.v],
            burned_amount - message.out_value.v)

\* The oracle message of the burn option, if it names an input outpoint:
\* with an oracle setting the outpoint must be the one the account came
\* from and the message must validate.
account_oracle(self, return_collateral, t, btx, contract_id, burn_option, collateral_account, collateral_account_outpoint, burned_amount) ==
    IF ~burn_option.oracle_message.some
       \/ ~burn_option.oracle_message.v.message.input_outpoint.some
    THEN account_relocated(self, t, contract_id, burn_option, collateral_account)
    ELSE IF return_collateral.oracle_setting.some /\ ~collateral_account_outpoint.some
    THEN [self |-> self, flaw |-> Panic, out_values |-> <<>>]
    ELSE IF /\ return_collateral.oracle_setting.some
            /\ burn_option.oracle_message.v.message.input_outpoint.v
                 # collateral_account_outpoint.v
    THEN [self |-> self, flaw |-> Flaw("OracleMintFailed"), out_values |-> <<>>]
    ELSE IF /\ return_collateral.oracle_setting.some
            /\ validate_oracle_message(burn_option.oracle_message.v,
                                       return_collateral.oracle_setting.v, btx) # NoFlaw
    THEN [self |-> self,
          flaw |-> validate_oracle_message(burn_option.oracle_message.v,
                                           return_collateral.oracle_setting.v, btx),
          out_values |-> <<>>]
    ELSE account_updated(self, t, contract_id, burn_option, collateral_account,
                         burned_amount, burn_option.oracle_message.v.message)

\* The Account arm of burn_return_collateral: the account of the contract
\* and the outpoint it came from are taken out of the unallocated inputs.
burn_account(self, return_collateral, t, btx, contract_id, burn_option, burned_amount) ==
    IF \/ "collateral_accounts" \notin DOMAIN self.unallocated_inputs
       \/ contract_id \notin DOMAIN self.unallocated_inputs.collateral_accounts
    THEN [self |-> self, flaw |-> Flaw("CollateralAccountNotFound"), out_values |-> <<>>]
    ELSE account_oracle(
            [self EXCEPT
               !.unallocated_inputs.collateral_accounts = MapRemove(@, contract_id),
               !.unallocated_inputs.helper_outpoint_collateral_accounts =
                   MapRemove(@, self.unallocated_inputs.collateral_accounts[contract_id])],
            return_collateral, t, btx, contract_id, burn_option,
            self.unallocated_inputs.collateral_accounts[contract_id],
            IF self.unallocated_inputs.collateral_accounts[contract_id]
                 \in DOMAIN self.unallocated_inputs.helper_outpoint_collateral_accounts
            THEN Some(self.unallocated_inputs.helper_outpoint_collateral_accounts[
                        self.unallocated_inputs.collateral_accounts[contract_id]])
            ELSE None,
            burned_amount)

burn_return_collateral(self, mba, t, btx, contract_id, burn_option) ==
    LET burned_amount == MapGetOr(self.unallocated_inputs.asset_list, contract_id, 0)
        removed == [self EXCEPT !.unallocated_inputs.asset_list = MapRemove(@, contract_id)]
    IN IF burned_amount = 0
       THEN [self |-> removed, flaw |-> Flaw("InsufficientInputAmount")]
       ELSE IF ~mba.collateralized.some
       THEN [self |-> removed, flaw |-> Flaw("InvalidContractType")]
       ELSE
         LET collateralized == mba.collateralized.v
             r1 == CASE collateralized.mint_structure.kind = "proportional" ->
                          burn_proportional(removed, collateralized, contract_id, burned_amount)
                      [] collateralized.mint_structure.kind = "account" ->
                          burn_account(removed, mba.return_collateral.v, t, btx,
                                       contract_id, burn_option, burned_amount)
             r2 == validate_and_update_supply_cap(r1.self, contract_id, burned_amount)
             pointer_flaw == IF burn_option.pointer.some
                             THEN validate_pointer(burn_option.pointer.v, t)
                             ELSE NoFlaw
         IN IF r1.flaw # NoFlaw THEN [self |-> r1.self, flaw |-> r1.flaw]
            ELSE IF r2.flaw # NoFlaw THEN [self |-> r2.self, flaw |-> r2.flaw]
            ELSE IF pointer_flaw # NoFlaw THEN [self |-> r2.self, flaw |-> pointer_flaw]
            ELSE IF burn_option.pointer.some
                 THEN [self |-> allocate_out_values(
                                   r2.self, burn_option.pointer.v,
                                   collateralized.input_assets, r1.out_values, 1),
                       flaw |-> NoFlaw]
                 ELSE [self |-> r2.self, flaw |-> NoFlaw]

burn(self, t, btx, contract_id, burn_option, message) ==
    IF ~message.ok THEN [self |-> self, flaw |-> message.flaw]
    ELSE IF ~message.v.contract_creation.some
    THEN [self |-> self, flaw |-> Flaw("ContractNotMatch")]
    ELSE
      LET contract_type == message.v.contract_creation.v.contract_type
      IN CASE contract_type.kind \in {"free_mint", "preallocated", "purchase"} ->
                [self |-> self, flaw |-> NoFlaw]
           [] contract_type.kind = "mba" ->
                LET live == check_live_time(contract_type.live_time,
                                            contract_type.end_time, btx[1])
                IN IF live # NoFlaw THEN [self |-> self, flaw |-> live]
                   ELSE IF contract_type.return_collateral.some
                   THEN burn_return_collateral(self, contract_type, t, btx,
                                               contract_id, burn_option)
                   ELSE [self |-> self, flaw |-> Flaw("NotImplemented")]
           [] OTHER -> [self |-> self, flaw |-> Flaw("ContractNotMatch")]

\* ------------------------------------------------------------------ index
\* The message part of index: static validation, transfers, contract
\* creation, contract call; returns the Updater and outcome.flaw.
index_transfers(self, t, message) ==
    IF message.transfer.some /\ validate(message) = NoFlaw
    THEN transfers(self, t, message.transfer.v)
    ELSE [self |-> self, flaw |-> validate(message)]

\* index_contract_creation accepting any stored outcome as the referenced
\* contract.
index_contract_creation_stored(r, message) ==
    IF /\ message.contract_creation.some
       /\ message.contract_creation.v.contract_type.kind = "purchase"
       /\ message.contract_creation.v.contract_type.input_asset.kind = "glittr_asset"
       /\ r.flaw = NoFlaw
       /\ ~get(r.self.database, MESSAGE_PREFIX,
               message.contract_creation.v.contract_type.input_asset.id).found
    THEN [self |-> r.self, flaw |-> Flaw("ReferencingFlawedBlockTx")]
    ELSE r

\* A purchase contract paid in a glittr asset must reference a stored
\* contract creation.
index_contract_creation(r, message) ==
    LET purchase_of_glittr_asset ==
            /\ message.contract_creation.some
            /\ message.contract_creation.v.contract_type.kind = "purchase"
            /\ message.contract_creation.v.contract_type.input_asset.kind = "glittr_asset"
        referenced ==
            get_message(r.self, message.contract_creation.v.contract_type.input_asset.id)
    IN IF purchase_of_glittr_asset /\ r.flaw = NoFlaw
          /\ (~referenced.ok \/ ~referenced.v.contract_creation.some)
       THEN [self |-> r.self, flaw |-> Flaw("ReferencingFlawedBlockTx")]
       ELSE r

\* index_contract_call without the test of the flaw recorded so far.
index_contract_call_always(r, t, btx, message, ord) ==
    IF message.contract_call.some
       /\ message.contract_call.v.call_type.kind = "mint"
    THEN mint(r.self, t, btx, message.contract_call.v.contract,
              message.contract_call.v.call_type.option, ord)
    ELSE r

index_contract_call(r, t, btx, message, ord) ==
    IF message.contract_call.some
       /\ message.contract_call.v.call_type.kind = "mint"
       /\ r.flaw = NoFlaw
    THEN mint(r.self, t, btx, message.contract_call.v.contract,
              message.contract_call.v.call_type.option, ord)
    ELSE r

index_message(self, t, btx, message, ord) ==
    index_contract_call(
        index_contract_creation(index_transfers(self, t, message), message),
        t, btx, message, ord)

\* index_outcome with the transaction index dropped from the key.
index_outcome_by_block(r, btx, t, message_result) ==
    LET out == MessageDataOutcome(
                 IF message_result.ok THEN Some(message_result.v) ELSE None, r.flaw)
    IN [self |-> IF ~r.self.is_read_only /\ r.flaw # Panic
                 THEN [r.self EXCEPT !.database =
                         put(put(@, MESSAGE_PREFIX, <<btx[1], 0>>, out),
                             TRANSACTION_TO_BLOCK_TX_PREFIX, t.txid, btx)]
                 ELSE r.self,
        outcome |-> out]

\* The end of index: the outcome is stored under the transaction's block_tx
\* by a writing Updater that is still running.
index_outcome(r, btx, t, message_result) ==
    LET out == MessageDataOutcome(
                 IF message_result.ok THEN Some(message_result.v) ELSE None, r.flaw)
    IN [self |-> IF ~r.self.is_read_only /\ r.flaw # Panic
                 THEN [r.self EXCEPT !.database =
                         put(put(@, MESSAGE_PREFIX, btx, out),
                             TRANSACTION_TO_BLOCK_TX_PREFIX, t.txid, btx)]
                 ELSE r.self,
        outcome |-> out]

index(self, btx, t, message_result, ord) ==
    index_outcome(
        IF message_result.ok
        THEN index_message(self, t, btx, message_result.v, ord)
        ELSE [self |-> self, flaw |-> message_result.flaw],
        btx, t, message_result)

\* ------------------------------------------------------------ input domains
\* An outpoint no transaction of the model creates (a plain bitcoin UTXO).
MissingOutpoint == Outpoint(0, 0)
\* A contract id under which nothing is stored.
UnknownContract == <<0, 0>>

\* TxOut: whether the script starts with OP_RETURN, the address the script
\* pays to and the value in satoshi.
TxOut(op_return, address, value) ==
    [op_return |-> op_return, address |-> address, value |-> value]
OpReturnOut == TxOut(TRUE, "none", 0)
WalletOut == TxOut(FALSE, "wallet", 1)

\* parse_tx finds a message only in an OP_RETURN output.
carries_message(t) == \E i \in 1..Len(t.output) : is_op_return_index(t.output[i])

Transaction(txid, input, output) == [txid |-> txid, input |-> input, output |-> output]

BlockTxOf(n) == <<(n - 1) \div TxPerBlock + 1, (n - 1) % TxPerBlock>>

\* The txid of the next transaction: one more than the transactions indexed.
NextTxid(db) == Cardinality(DOMAIN db.tx_to_blocktx) + 1

\* The sequences of at most n elements of S, each in one fixed order of S
\* (the order of a transaction's inputs matters to no handler modelled here
\* but the purchase mint, which has inputs of its own).
RECURSIVE SetToSeq(_)
SetToSeq(S) ==
    IF S = {} THEN <<>>
    ELSE LET x == CHOOSE y \in S : TRUE IN <<x>> \o SetToSeq(S \ {x})

InputChoices(db) ==
    {SetToSeq(S) : S \in {R \in SUBSET (DOMAIN db.asset_list \cup {MissingOutpoint}) :
                            Cardinality(R) <= MaxIn}}

OutputChoices ==
    UNION {[1..n -> {OpReturnOut, WalletOut}] : n \in 1..MaxOut}

ContractChoices(db) == DOMAIN db.message \cup {UnknownContract}

CreationChoices ==
    {FreeMintContract(Some(2), 1, 0), FreeMintContract(None, 2, 0),
     FreeMintContract(Some(2), 1, 9), FreeMintContract(Some(1), 0, 0),
     PreallocatedContract}

TransferEntryChoices(self, t) ==
    {TxTypeTransfer(a, o, m) :
        a \in DOMAIN self.unallocated_inputs.asset_list \cup {UnknownContract},
        o \in 0..Len(t.output),
        m \in 0..2}

TransferChoices(self, t) ==
    UNION {[1..n -> TransferEntryChoices(self, t)] : n \in 1..MaxTransfers}

MintChoices(self) ==
    {MintCall(c, MintOption(p)) : c \in ContractChoices(self.database), p \in 0..MaxOut}

GlittrMessageChoices(self, t) ==
    {Ok(OpReturnMessage(None, Some(ContractCreation(c)), None)) : c \in CreationChoices}
    \cup {Ok(OpReturnMessage(None, None, Some(m))) : m \in MintChoices(self)}
    \cup {Ok(OpReturnMessage(None, None, Some(BurnCall(UnknownContract)))),
          Ok(OpReturnMessage(None, None, Some(SwapCall(UnknownContract))))}
    \cup {Ok(OpReturnMessage(Some(l), None, None)) : l \in TransferChoices(self, t)}

\* The results parse_tx can give for a transaction with these outputs.
MessageChoices(self, t) ==
    {Err(Flaw("NonGlittrMessage"))}
    \cup (IF carries_message(t) THEN GlittrMessageChoices(self, t) ELSE {})

\* --------------------------------------------------------------- the driver
Self ==
    [database |-> database, is_read_only |-> is_read_only,
     unallocated_inputs |-> unallocated_inputs,
     allocated_outputs |-> allocated_outputs]

\* Updater::new
NewUpdater(db, read_only) ==
    [database |-> db, is_read_only |-> read_only,
     unallocated_inputs |-> DefaultAllocation, allocated_outputs |-> EmptyMap]

NoTx == Transaction(0, <<>>, <<>>)
NoOutcome == MessageDataOutcome(None, NoFlaw)
NoCall == [name |-> "none"]

\* The iteration orders of the asset list a message's mint serializes.
MintOrders(self, t, message_result) ==
    Orderings(
        IF message_result.ok /\ message_result.v.contract_call.some
           /\ message_result.v.contract_call.v.call_type.kind = "mint"
        THEN mint_asset_list_keys(
                self, message_result.v.contract_call.v.contract,
                Outpoint(t.txid, message_result.v.contract_call.v.call_type.option.pointer))
        ELSE {})

CommitOrders(self, t) ==
    LET staged == commit_fallback(self, t).allocated_outputs
    IN IterationOrders(staged, DOMAIN staged)

\* The databases the indexer can leave after the transaction n with the
\* given inputs, outputs and message: unallocate_inputs, index, commit_outputs.
ProcessTx(db, input, output, message_result) ==
    LET t == Transaction(NextTxid(db), input, output)
        s1 == unallocate_inputs(NewUpdater(db, FALSE), t)
    IN UNION {
         LET s2 == index(s1, BlockTxOf(t.txid), t, message_result, o1).self
         IN {commit_outputs(s2, t, o2).database : o2 \in CommitOrders(s2, t)}
         : o1 \in MintOrders(s1, t, message_result)}

\* The history every behaviour starts with.  Transactions 1 and 2 create the
\* contracts A (supply cap 2, 1 per mint) and B (no cap, 2 per mint); 3 and 4
\* mint each once, to (3,0) and (4,0); 5 spends both, so that (5,0) holds A
\* and B; 6 mints A once more, which brings it to its cap; 7 creates the pool
\* contract P over A and B.
ContractA == BlockTxOf(1)
ContractB == BlockTxOf(2)
ContractP == BlockTxOf(7)
Plain == <<WalletOut>>
Carrier == <<WalletOut, OpReturnOut>>
MintMessage(c, p) == Ok(OpReturnMessage(None, None, Some(MintCall(c, MintOption(p)))))
CreationMessage(c) == Ok(OpReturnMessage(None, Some(ContractCreation(c)), None))
PoolContract ==
    MintBurnAssetContract(
        0, None,
        Some(Proportional(<<GlittrAsset(ContractA), GlittrAsset(ContractB)>>,
                          "constant_product")),
        Some(ReturnCollateral))

Block(input, output, message) == [input |-> input, output |-> output, message |-> message]

History ==
    <<Block(<<>>, Carrier, CreationMessage(FreeMintContract(Some(2), 1, 0))),
      Block(<<>>, Carrier, CreationMessage(FreeMintContract(None, 2, 0))),
      Block(<<>>, Carrier, MintMessage(ContractA, 0)),
      Block(<<>>, Carrier, MintMessage(ContractB, 0)),
      Block(<<Outpoint(3, 0), Outpoint(4, 0)>>, Plain, Err(Flaw("NonGlittrMessage"))),
      Block(<<>>, Carrier, MintMessage(ContractA, 0)),
      Block(<<>>, Carrier, CreationMessage(PoolContract))>>

\* Transaction 8 is the liquidity deposit of the collateralized mint of P: it
\* spends (5,0) and (6,0), the pool holds 2 A and 2 B, and the 2 shares
\* minted sit on (8,0) and (8,1).
Deposit(db) ==
    LET spent == delete(delete(delete(delete(db,
                    ASSET_LIST_PREFIX, Outpoint(5, 0)),
                    ASSET_LIST_PREFIX, Outpoint(6, 0)),
                    SPEC_CONTRACT_OWNED_PREFIX, Outpoint(5, 0)),
                    SPEC_CONTRACT_OWNED_PREFIX, Outpoint(6, 0))
        shares == put(put(put(put(spent,
                    ASSET_LIST_PREFIX, Outpoint(8, 0), <<<<ContractP, 1>>>>),
                    ASSET_LIST_PREFIX, Outpoint(8, 1), <<<<ContractP, 1>>>>),
                    SPEC_CONTRACT_OWNED_PREFIX, Outpoint(8, 0), <<>>),
                    SPEC_CONTRACT_OWNED_PREFIX, Outpoint(8, 1), <<>>)
        pool == put(put(shares,
                    COLLATERALIZED_CONTRACT_DATA, ContractP,
                    CollateralizedAssetData(
                        MapInsert(MapInsert(EmptyMap, ContractA, 2), ContractB, 2), 2)),
                    ASSET_CONTRACT_DATA_PREFIX, ContractP,
                    [minted_supply |-> 2, burned_supply |-> 0])
    IN put(put(pool,
            MESSAGE_PREFIX, BlockTxOf(8),
            MessageDataOutcome(
                Some(OpReturnMessage(None, None, Some(MintCall(ContractP, MintOption(0))))),
                NoFlaw)),
            TRANSACTION_TO_BLOCK_TX_PREFIX, 8, BlockTxOf(8))

Install(self) ==
    /\ database' = self.database
    /\ unallocated_inputs' = self.unallocated_inputs
    /\ allocated_outputs' = self.allocated_outputs

InitFrom(dbs) ==
    /\ database \in dbs
    /\ is_read_only = FALSE
    /\ unallocated_inputs = DefaultAllocation
    /\ allocated_outputs = EmptyMap
    /\ pc = "idle"
    /\ tx = NoTx
    /\ block_tx = <<0, 0>>
    /\ outcome = NoOutcome
    /\ ntx = 0
    /\ before = database
    /\ call = NoCall
    /\ database2 = EmptyDatabase

\* Updater::new(database, read_only) followed by unallocate_inputs(tx): the
\* indexer's writing Updater, or the read-only Updater of a simulation.
UnallocateInputs(max_tx, outputs) ==
    /\ pc = "idle"
    /\ ntx < max_tx
    /\ \E read_only \in BOOLEAN, input \in InputChoices(database), output \in outputs :
         /\ LET t == Transaction(NextTxid(database), input, output)
            IN /\ tx' = t
               /\ block_tx' = BlockTxOf(t.txid)
               /\ is_read_only' = read_only
               /\ Install(unallocate_inputs(NewUpdater(database, read_only), t))
    /\ before' = database
    /\ outcome' = NoOutcome
    /\ pc' = "unallocated"
    /\ UNCHANGED <<ntx, call, database2>>

Index(messages) ==
    /\ pc = "unallocated"
    /\ \E message_result \in messages :
         \E ord \in MintOrders(Self, tx, message_result) :
           LET r == index(Self, block_tx, tx, message_result, ord)
           IN /\ Install(r.self)
              /\ outcome' = r.outcome
    /\ pc' = "indexed"
    /\ UNCHANGED <<is_read_only, tx, block_tx, ntx, before, call, database2>>

BurnChoices(self) ==
    {[contract |-> c, option |-> MintBurnOption(p)] :
        c \in ContractChoices(self.database),
        p \in {None} \cup {Some(v) : v \in 0..MaxOut}}

\* A call of Updater::burn on the message stored for the contract.
Burn ==
    /\ pc = "unallocated"
    /\ carries_message(tx)
    /\ \E c \in BurnChoices(Self) :
         LET r == burn(Self, tx, block_tx, c.contract, c.option,
                       get_message(Self, c.contract))
         IN /\ Install(r.self)
            /\ outcome' = MessageDataOutcome(
                             Some(OpReturnMessage(None, None, Some(BurnCall(c.contract)))),
                             r.flaw)
            /\ call' = [name |-> "burn", contract_id |-> c.contract,
                        burn_option |-> c.option]
    /\ pc' = "indexed"
    /\ UNCHANGED <<is_read_only, tx, block_tx, ntx, before, database2>>

\* The indexer processes the next transaction of the history:
\* unallocate_inputs, index and commit_outputs on a writing Updater.
IndexHistory(history) ==
    /\ pc = "idle"
    /\ ntx = 0
    /\ call = NoCall
    /\ NextTxid(database) <= Len(history)
    /\ LET h == history[NextTxid(database)]
       IN database' \in ProcessTx(database, h.input, h.output, h.message)
    /\ before' = database'
    /\ UNCHANGED <<is_read_only, unallocated_inputs, allocated_outputs, pc, tx,
                   block_tx, outcome, ntx, call, database2>>

\* The indexer processes the liquidity deposit that follows the history.
IndexDeposit ==
    /\ pc = "idle"
    /\ ntx = 0
    /\ NextTxid(database) = Len(History) + 1
    /\ database' = Deposit(database)
    /\ before' = database'
    /\ UNCHANGED <<is_read_only, unallocated_inputs, allocated_outputs, pc, tx,
                   block_tx, outcome, ntx, call, database2>>

CommitOutputs ==
    /\ pc = "indexed"
    /\ outcome.flaw # Panic
    /\ \E ord \in CommitOrders(Self, tx) : Install(commit_outputs(Self, tx, ord))
    /\ ntx' = ntx + 1
    /\ pc' = "idle"
    /\ UNCHANGED <<is_read_only, tx, block_tx, outcome, before, call, database2>>

\* The read-only Updater of a simulation is dropped without a commit.
Discard ==
    /\ pc = "indexed"
    /\ is_read_only
    /\ outcome.flaw # Panic
    /\ unallocated_inputs' = DefaultAllocation
    /\ allocated_outputs' = EmptyMap
    /\ ntx' = ntx + 1
    /\ pc' = "idle"
    /\ UNCHANGED <<database, is_read_only, tx, block_tx, outcome, before, call, database2>>

Init == InitFrom({EmptyDatabase})

Next ==
    \/ IndexHistory(History)
    \/ IndexDeposit
    \/ UnallocateInputs(MaxTx, OutputChoices)
    \/ Index(MessageChoices(Self, tx))
    \/ Burn
    \/ CommitOutputs
    \/ Discard

Spec == Init /\ [][Next]_vars

\* ------------------------------------------------------ purchase and simulation
\* The validate-tx simulation of a transaction at the tip, followed by the
\* indexing of the same transaction as the next one of the chain.  The
\* history: transaction 1 creates the token T (no cap, 2 per mint), 2 and 3
\* mint it to (2,0) and (3,0), 4 creates the purchase contract S (paid in T,
\* burn scheme, oracle ratio) and 5 the purchase contract F (paid in
\* satoshi to the seller, fixed ratio 2/1).
ContractT == BlockTxOf(1)
ContractS == BlockTxOf(4)
ContractF == BlockTxOf(5)
SellerOut == TxOut(FALSE, "seller", 2)

PurchaseHistory ==
    <<Block(<<>>, Carrier, CreationMessage(FreeMintContract(None, 2, 0))),
      Block(<<>>, Carrier, MintMessage(ContractT, 0)),
      Block(<<>>, Carrier, MintMessage(ContractT, 0)),
      Block(<<>>, Carrier,
            CreationMessage(PurchaseBurnSwap(GlittrAsset(ContractT), TransferSchemeBurn,
                                             RatioOracle("oracle", "usd")))),
      Block(<<>>, Carrier,
            CreationMessage(PurchaseBurnSwap(RawBTC, TransferSchemePurchase("seller"),
                                             RatioFixed(2, 1))))>>

\* The orders of the subsets of at most MaxIn outpoints.
PurchaseInputs(db) ==
    UNION {Orderings(S) : S \in {R \in SUBSET (DOMAIN db.asset_list \cup {MissingOutpoint}) :
                                   Cardinality(R) <= MaxIn}}

PurchaseOutputs ==
    UNION {[1..n -> {OpReturnOut, WalletOut, SellerOut}] : n \in 1..MaxOut}

OracleChoices(t) ==
    {None}
    \cup {Some(OracleMessageSigned(SignedBy(key, m), m)) :
            key \in {"oracle", "mallory"},
            m \in {OracleMessage(asset_id, 1, o, min_in_value) :
                     asset_id \in {"usd", "eur"},
                     o \in {t.input[i] : i \in 1..Len(t.input)} \cup {MissingOutpoint},
                     min_in_value \in {0, 2}}}

PurchaseMessages(self, t) ==
    {Err(Flaw("NonGlittrMessage"))}
    \cup (IF carries_message(t)
          THEN {Ok(OpReturnMessage(None, None, Some(MintCall(c, MintOptionWith(p, o))))) :
                  c \in {ContractT, ContractS, ContractF},
                  p \in 0..MaxOut,
                  o \in OracleChoices(t)}
          ELSE {})

\* The response of validate_tx to an outcome of index.
ValidateResponse(o) ==
    IF o.flaw # NoFlaw THEN [is_valid |-> FALSE, msg |-> o.flaw] ELSE [is_valid |-> TRUE]

\* validate_tx: a read-only Updater unallocates the inputs of the transaction
\* and indexes its message at the tip; a transaction without a message is
\* answered without indexing.
ValidateTx ==
    /\ pc = "idle"
    /\ ntx < MaxTx
    /\ \E input \in PurchaseInputs(database), output \in PurchaseOutputs :
         LET t == Transaction(NextTxid(database), input, output)
             temp_updater == unallocate_inputs(NewUpdater(database, TRUE), t)
         IN \E message_result \in PurchaseMessages(temp_updater, t) :
              IF message_result.ok
              THEN \E ord \in MintOrders(temp_updater, t, message_result) :
                     LET r == index(temp_updater, <<BlockTxOf(t.txid)[1], 1>>, t,
                                    message_result, ord)
                     IN /\ database' = r.self.database
                        /\ call' = [name |-> "validate_tx", tx |-> t,
                                    message_result |-> message_result,
                                    outcome |-> r.outcome,
                                    response |-> ValidateResponse(r.outcome)]
              ELSE /\ database' = database
                   /\ call' = [name |-> "validate_tx", tx |-> t,
                               message_result |-> message_result,
                               outcome |-> NoOutcome,
                               response |-> [is_valid |-> FALSE,
                                             msg |-> "Not a valid Glittr message"]]
    /\ pc' = "validated"
    /\ UNCHANGED <<is_read_only, unallocated_inputs, allocated_outputs, tx, block_tx,
                   outcome, ntx, before, database2>>

\* The indexer takes the transaction that was simulated.
UnallocateValidated ==
    /\ pc = "validated"
    /\ tx' = call.tx
    /\ block_tx' = BlockTxOf(call.tx.txid)
    /\ is_read_only' = FALSE
    /\ Install(unallocate_inputs(NewUpdater(database, FALSE), call.tx))
    /\ before' = database
    /\ outcome' = NoOutcome
    /\ pc' = "unallocated"
    /\ UNCHANGED <<ntx, call, database2>>

ValidatedMessage == {call.message_result}

\* The process stops at a panic; the Updater of the transaction is lost.
Abort ==
    /\ pc = "indexed"
    /\ outcome.flaw = Panic
    /\ unallocated_inputs' = DefaultAllocation
    /\ allocated_outputs' = EmptyMap
    /\ ntx' = ntx + 1
    /\ pc' = "idle"
    /\ UNCHANGED <<database, is_read_only, tx, block_tx, outcome, before, call, database2>>

NextPurchase ==
    \/ IndexHistory(PurchaseHistory)
    \/ ValidateTx
    \/ UnallocateValidated
    \/ Index(ValidatedMessage)
    \/ CommitOutputs
    \/ Abort

SpecPurchase == Init /\ [][NextPurchase]_vars

\* ---------------------------------------------------------- live time
\* Contracts that are live in block 2 only, called in blocks 1 to 4: L is a
\* free mint, M a mint-burn asset with a collateral return.  The history
\* creates both in block 1 and goes on with plain transactions, so that the
\* transaction that follows a prefix of it lands in block 1, 2, 3 or 4.
ContractL == BlockTxOf(1)
ContractM == BlockTxOf(2)

LiveHistory ==
    <<Block(<<>>, Carrier, CreationMessage(FreeMintContractUntil(None, 1, 2, Some(3)))),
      Block(<<>>, Carrier,
            CreationMessage(MintBurnAssetContract(
                2, Some(3),
                Some(Proportional(<<GlittrAsset(ContractL), GlittrAsset(ContractL)>>,
                                  "constant_product")),
                Some(ReturnCollateral)))),
      Block(<<>>, Plain, Err(Flaw("NonGlittrMessage"))),
      Block(<<>>, Plain, Err(Flaw("NonGlittrMessage"))),
      Block(<<>>, Plain, Err(Flaw("NonGlittrMessage"))),
      Block(<<>>, Plain, Err(Flaw("NonGlittrMessage")))>>

LiveMessages(self, t) ==
    {Err(Flaw("NonGlittrMessage"))}
    \cup (IF carries_message(t)
          THEN {MintMessage(c, p) : c \in DOMAIN self.database.message, p \in 0..MaxOut}
          ELSE {})

NextLive ==
    \/ IndexHistory(LiveHistory)
    \/ UnallocateInputs(MaxTx, OutputChoices)
    \/ Index(LiveMessages(Self, tx))
    \/ Burn
    \/ CommitOutputs
    \/ Discard

SpecLive == Init /\ [][NextLive]_vars

\* ------------------------------------------------ purchases paid in satoshi
\* Purchase mints paid in raw BTC, in transactions with several outputs
\* that pay.  The history creates the contract R (paid to the seller, fixed
\* ratio 1/1) and the contract U (paid by burning, fixed ratio 2/1).
ContractR == BlockTxOf(1)
ContractU == BlockTxOf(2)
SellerOutOne == TxOut(FALSE, "seller", 1)
BurnOut == TxOut(TRUE, "none", 1)

ReceivedHistory ==
    <<Block(<<>>, Carrier,
            CreationMessage(PurchaseBurnSwap(RawBTC, TransferSchemePurchase("seller"),
                                             RatioFixed(1, 1)))),
      Block(<<>>, Carrier,
            CreationMessage(PurchaseBurnSwap(RawBTC, TransferSchemeBurn,
                                             RatioFixed(2, 1))))>>

ReceivedOutputs ==
    UNION {[1..n -> {OpReturnOut, BurnOut, SellerOutOne, SellerOut}] : n \in 1..(MaxOut + 1)}

ReceivedMessages(self, t) ==
    {Err(Flaw("NonGlittrMessage"))}
    \cup (IF carries_message(t)
          THEN {MintMessage(c, p) : c \in {ContractR, ContractU}, p \in 0..(MaxOut + 1)}
          ELSE {})

NextReceived ==
    \/ IndexHistory(ReceivedHistory)
    \/ UnallocateInputs(MaxTx, ReceivedOutputs)
    \/ Index(ReceivedMessages(Self, tx))
    \/ CommitOutputs
    \/ Discard
    \/ Abort

SpecReceived == Init /\ [][NextReceived]_vars

\* ------------------------------------------------------- oracle messages
\* OracleMessage with the block height it was signed at (message.rs), and
\* an oracle ratio whose setting carries max_staleness.
OracleMessageAt(asset_id, out_value, input_outpoint, min_in_value, block_height) ==
    [asset_id |-> asset_id, out_value |-> out_value,
     input_outpoint |-> input_outpoint, min_in_value |-> min_in_value,
     block_height |-> block_height]

RatioOracleWithin(pubkey, asset_id, max_staleness) ==
    [kind |-> "oracle", pubkey |-> pubkey,
     setting |-> [asset_id |-> asset_id, max_staleness |-> max_staleness]]

\* The contract O is a purchase paid in satoshi to the seller at the rate
\* of an oracle whose messages are good for one block.  The plain
\* transactions that follow let the mint land in block 1, 2, 3 or 4; the
\* oracle messages are signed at block 1 or 3.
ContractO == BlockTxOf(1)

OracleHistory ==
    <<Block(<<>>, Carrier,
            CreationMessage(PurchaseBurnSwap(RawBTC, TransferSchemePurchase("seller"),
                                             RatioOracleWithin("oracle", "usd", 1)))),
      Block(<<>>, Plain, Err(Flaw("NonGlittrMessage"))),
      Block(<<>>, Plain, Err(Flaw("NonGlittrMessage"))),
      Block(<<>>, Plain, Err(Flaw("NonGlittrMessage"))),
      Block(<<>>, Plain, Err(Flaw("NonGlittrMessage"))),
      Block(<<>>, Plain, Err(Flaw("NonGlittrMessage")))>>

StaleChoices(t) ==
    {None}
    \cup {Some(OracleMessageSigned(SignedBy(key, m), m)) :
            key \in {"oracle", "mallory"},
            m \in {OracleMessageAt("usd", 1, o, 0, h) :
                     o \in {t.input[i] : i \in 1..Len(t.input)} \cup {MissingOutpoint},
                     h \in {1, 3}}}

OracleMessages(self, t) ==
    {Err(Flaw("NonGlittrMessage"))}
    \cup (IF carries_message(t)
          THEN {Ok(OpReturnMessage(None, None, Some(MintCall(ContractO, MintOptionWith(p, o))))) :
                  p \in 0..MaxOut, o \in StaleChoices(t)}
          ELSE {})

NextOracle ==
    \/ IndexHistory(OracleHistory)
    \/ UnallocateInputs(MaxTx, PurchaseOutputs)
    \/ Index(OracleMessages(Self, tx))
    \/ CommitOutputs
    \/ Discard

SpecOracle == Init /\ [][NextOracle]_vars

\* ------------------------------------------------- collateral accounts
\* Burns against mint-burn assets of the Account structure.  The history
\* creates the contract K, whose return of collateral has an oracle
\* setting (messages good for one block), and the contract J, which has
\* none.  The next transaction spends the outpoint that holds a collateral
\* account and shares of one of them.
ContractK == BlockTxOf(1)
ContractJ == BlockTxOf(2)
AccountOutpoint == Outpoint(0, 1)

AccountContract(oracle_setting) ==
    MintBurnAssetContract(0, None, Some(AccountStructure(<<RawBTC>>)),
                          Some(ReturnCollateralWith(oracle_setting)))

AccountHistory ==
    <<Block(<<>>, Carrier, CreationMessage(AccountContract(Some(OracleSetting("oracle", 1))))),
      Block(<<>>, Carrier, CreationMessage(AccountContract(None)))>>

\* The accounts an outpoint can hold: collateral 2 at an ltv of 1/2, with
\* 0 or 1 outstanding.
AccountChoices == {CollateralAccount(2, 2, <<1, 2>>, o) : o \in 0..1}

\* The unallocated inputs after the inputs of the transaction are read:
\* the shares and the account the spent outpoint held.
AccountInputs(contract_id, shares, account) ==
    [asset_list |-> IF shares > 0 THEN MapInsert(EmptyMap, contract_id, shares) ELSE EmptyMap,
     spec_owned |-> <<>>,
     collateral_accounts |->
        IF account.some THEN MapInsert(EmptyMap, contract_id, account.v) ELSE EmptyMap,
     helper_outpoint_collateral_accounts |->
        IF account.some THEN MapInsert(EmptyMap, account.v, AccountOutpoint) ELSE EmptyMap]

\* Updater::new and unallocate_inputs of a transaction that spends the
\* account's outpoint.
LoadAccount ==
    /\ pc = "idle"
    /\ ntx < MaxTx
    /\ NextTxid(database) = Len(AccountHistory) + 1
    /\ \E read_only \in BOOLEAN, output \in {Carrier, <<OpReturnOut>>},
          contract_id \in {ContractK, ContractJ}, shares \in 0..MaxAmount,
          account \in {None} \cup {Some(a) : a \in AccountChoices} :
         /\ tx' = Transaction(NextTxid(database), <<AccountOutpoint>>, output)
         /\ is_read_only' = read_only
         /\ unallocated_inputs' = AccountInputs(contract_id, shares, account)
         /\ call' = [name |-> "load", contract_id |-> contract_id, account |-> account]
    /\ block_tx' = BlockTxOf(NextTxid(database))
    /\ allocated_outputs' = EmptyMap
    /\ before' = database
    /\ outcome' = NoOutcome
    /\ pc' = "unallocated"
    /\ UNCHANGED <<database, ntx, database2>>

\* Oracle messages about the account: signed at block 2 (fresh for the
\* transaction) or 4 (stale), by the oracle or by someone else.
AccountOracleChoices ==
    {None}
    \cup {Some(OracleMessageSigned(SignedBy(key, m), m)) :
            key \in {"oracle", "mallory"},
            m \in {AccountOracleMessage(o, ltv, outstanding, out_value, h) :
                     o \in {None, Some(AccountOutpoint), Some(MissingOutpoint)},
                     ltv \in {None, Some(<<1, 2>>)},
                     outstanding \in {None, Some(0), Some(2)},
                     out_value \in {None, Some(1), Some(2)},
                     h \in {2, 4}}}

AccountBurnChoices ==
    {MintBurnOptionTo(p, o, k) :
        p \in {None, Some(0)}, o \in AccountOracleChoices,
        k \in {None} \cup {Some(v) : v \in 0..MaxOut}}

\* A call of Updater::burn on the contract of the loaded account.
BurnAccount ==
    /\ pc = "unallocated"
    /\ call.name = "load"
    /\ \E burn_option \in AccountBurnChoices :
         LET r == burn(Self, tx, block_tx, call.contract_id, burn_option,
                       get_message(Self, call.contract_id))
         IN /\ Install(r.self)
            /\ outcome' = MessageDataOutcome(
                             Some(OpReturnMessage(None, None,
                                                  Some(BurnCall(call.contract_id)))),
                             r.flaw)
            /\ call' = [name |-> "burn", contract_id |-> call.contract_id,
                        burn_option |-> burn_option, account |-> call.account,
                        burned_amount |-> MapGetOr(unallocated_inputs.asset_list,
                                                   call.contract_id, 0)]
    /\ pc' = "indexed"
    /\ UNCHANGED <<is_read_only, tx, block_tx, ntx, before, database2>>

NextAccount ==
    \/ IndexHistory(AccountHistory)
    \/ LoadAccount
    \/ BurnAccount

SpecAccount == Init /\ [][NextAccount]_vars

\* ------------------------------------------------------ the fixed ratio
\* The out_value of a fixed-ratio purchase mint at the widths of the source.
\* A value is a little-endian sequence of bytes, so that values past 2^31
\* can be written; <<>> is 0.
U128Bytes == 16
U32Bytes == 4

RECURSIVE trim(_)
trim(a) == IF a # <<>> /\ a[Len(a)] = 0 THEN trim(SubSeq(a, 1, Len(a) - 1)) ELSE a

RECURSIVE bytes_value(_)
bytes_value(a) == IF a = <<>> THEN 0 ELSE a[1] + 256 * bytes_value(Tail(a))

RECURSIVE add_bytes(_, _, _)
add_bytes(a, b, carry) ==
    IF a = <<>> /\ b = <<>>
    THEN IF carry = 0 THEN <<>> ELSE <<carry>>
    ELSE <<((IF a = <<>> THEN 0 ELSE a[1]) + (IF b = <<>> THEN 0 ELSE b[1]) + carry) % 256>>
         \o add_bytes(IF a = <<>> THEN <<>> ELSE Tail(a),
                      IF b = <<>> THEN <<>> ELSE Tail(b),
                      ((IF a = <<>> THEN 0 ELSE a[1]) + (IF b = <<>> THEN 0 ELSE b[1])
                         + carry) \div 256)

RECURSIVE mul_byte(_, _, _)
mul_byte(a, m, carry) ==
    IF a = <<>>
    THEN IF carry = 0 THEN <<>> ELSE <<carry>>
    ELSE <<(a[1] * m + carry) % 256>> \o mul_byte(Tail(a), m, (a[1] * m + carry) \div 256)

\* The full product of a and b.
RECURSIVE mul_bytes(_, _)
mul_bytes(a, b) ==
    IF b = <<>> THEN <<>>
    ELSE add_bytes(mul_byte(a, b[1], 0), <<0>> \o mul_bytes(a, Tail(b)), 0)

\* The quotient of a by a divisor d of at most two bytes, by long division
\* from the high byte; rem is the remainder brought down.
RECURSIVE div_bytes(_, _, _)
div_bytes(a, d, rem) ==
    IF a = <<>> THEN <<>>
    ELSE div_bytes(SubSeq(a, 1, Len(a) - 1), d, (rem * 256 + a[Len(a)]) % d)
         \o <<(rem * 256 + a[Len(a)]) \div d>>

\* The low n bytes of a: what an integer of n bytes keeps of it.
low_bytes(a, n) == SubSeq(a, 1, Min(Len(a), n))

\* total_received_value * ratio.0 in u128: a product past 2^128 aborts the
\* call in a build with overflow checks and wraps in a build without.
wide_product(total_received_value, ratio, overflow_checks) ==
    IF Len(trim(mul_bytes(total_received_value, ratio[1]))) > U128Bytes /\ overflow_checks
    THEN [panic |-> TRUE, value |-> <<>>]
    ELSE [panic |-> FALSE,
          value |-> low_bytes(mul_bytes(total_received_value, ratio[1]), U128Bytes)]

\* out_value = (total_received_value * ratio.0) / ratio.1, and the amount
\* `out_value as u32` handed to update_asset_list_for_mint.
wide_out_value(product, ratio) ==
    IF product.panic \/ bytes_value(ratio[2]) = 0
    THEN [panic |-> TRUE, out_value |-> <<>>, credited |-> <<>>]
    ELSE [panic |-> FALSE,
          out_value |-> trim(div_bytes(product.value, bytes_value(ratio[2]), 0)),
          credited |-> trim(low_bytes(div_bytes(product.value, bytes_value(ratio[2]), 0),
                                      U32Bytes))]

fixed_ratio_out_value(total_received_value, ratio, overflow_checks) ==
    wide_out_value(wide_product(total_received_value, ratio, overflow_checks), ratio)

\* 2^(8 * n) - 1 and 2^(8 * n).
AllOnes(n) == [i \in 1..n |-> 255]
PowerOf256(n) == [i \in 1..(n + 1) |-> IF i = n + 1 THEN 1 ELSE 0]

\* Received values, in satoshi, of up to 8 bytes.
ReceivedChoices ==
    {<<>>, <<1>>, <<3>>, <<255>>, AllOnes(4), PowerOf256(4), <<1>> \o PowerOf256(3),
     AllOnes(8)}

\* Numerators of up to 16 bytes, denominators of up to 2.
NumeratorChoices == {<<1>>, <<2>>, <<3>>, <<0, 1>>, PowerOf256(12), AllOnes(16)}
DenominatorChoices == {<<>>, <<1>>, <<2>>, <<3>>, <<0, 1>>}

InitRatio ==
    /\ database = EmptyDatabase
    /\ is_read_only = FALSE
    /\ unallocated_inputs = DefaultAllocation
    /\ allocated_outputs = EmptyMap
    /\ pc = "idle"
    /\ tx = NoTx
    /\ block_tx = <<0, 0>>
    /\ outcome = NoOutcome
    /\ ntx = 0
    /\ before = database
    /\ call \in {[name |-> "fixed_ratio", total_received_value |-> r, ratio |-> <<n, d>>] :
                    r \in ReceivedChoices, n \in NumeratorChoices,
                    d \in DenominatorChoices}
    /\ database2 = EmptyDatabase

\* The fixed-ratio arm of mint_purchase_burn_swap computes and credits.
FixedRatioMint ==
    /\ pc = "idle"
    /\ call.name = "fixed_ratio"
    /\ \E overflow_checks \in BOOLEAN :
         call' = [name |-> "fixed_ratio_done",
                  total_received_value |-> call.total_received_value,
                  ratio |-> call.ratio,
                  result |-> fixed_ratio_out_value(call.total_received_value, call.ratio,
                                                   overflow_checks)]
    /\ pc' = "computed"
    /\ UNCHANGED <<database, is_read_only, unallocated_inputs, allocated_outputs, tx,
                   block_tx, outcome, ntx, before, database2>>

NextRatio == FixedRatioMint

SpecRatio == InitRatio /\ [][NextRatio]_vars

\* ------------------------------------------------ the proportional burn
\* The arithmetic of a proportional burn at the width of the source: u128
\* values as little-endian byte sequences, with saturating_mul,
\* saturating_div and saturating_sub.
RECURSIVE less_bytes(_, _)
less_bytes(a, b) ==
    IF Len(a) # Len(b) THEN Len(a) < Len(b)
    ELSE IF a = <<>> THEN FALSE
    ELSE IF a[Len(a)] # b[Len(b)] THEN a[Len(a)] < b[Len(b)]
    ELSE less_bytes(SubSeq(a, 1, Len(a) - 1), SubSeq(b, 1, Len(b) - 1))

\* a - b for a >= b.
RECURSIVE sub_bytes(_, _, _)
sub_bytes(a, b, borrow) ==
    IF a = <<>> THEN <<>>
    ELSE <<(256 + a[1] - (IF b = <<>> THEN 0 ELSE b[1]) - borrow) % 256>>
         \o sub_bytes(Tail(a), IF b = <<>> THEN <<>> ELSE Tail(b),
                      IF a[1] - (IF b = <<>> THEN 0 ELSE b[1]) - borrow < 0 THEN 1 ELSE 0)

\* The quotient of a by a divisor d # 0 whose bytes above its low zero bytes
\* are at most three: the low zero bytes of d are shifted out of a, then
\* the rest is divided by long division.
RECURSIVE low_zeros(_)
low_zeros(d) == IF d # <<>> /\ d[1] = 0 THEN 1 + low_zeros(Tail(d)) ELSE 0

div_shifted(a, d, shift) ==
    trim(div_bytes(SubSeq(a, shift + 1, Len(a)),
                   bytes_value(SubSeq(d, shift + 1, Len(d))), 0))

\* u128::saturating_mul, saturating_div (on a divisor that is not 0) and
\* saturating_sub.
saturating_mul(a, b) ==
    IF Len(trim(mul_bytes(a, b))) > U128Bytes THEN AllOnes(U128Bytes)
    ELSE trim(mul_bytes(a, b))
saturating_div(a, d) == div_shifted(a, d, low_zeros(d))
saturating_sub_bytes(a, b) == IF less_bytes(a, b) THEN <<>> ELSE trim(sub_bytes(a, b, 0))

\* 1_000_000
SCALE_BYTES == <<64, 66, 15>>

\* The share and the return amounts of burn_return_collateral's Proportional
\* arms, then the pool they leave.
pool_share(burned_amount, total_supply) ==
    saturating_div(saturating_mul(burned_amount, SCALE_BYTES), total_supply)
\* pool_return_amount rounded up instead of down.
pool_return_amount_up(existing, share) ==
    trim(add_bytes(saturating_div(saturating_mul(existing, share), SCALE_BYTES), <<1>>, 0))
pool_return_amount(existing, share) ==
    saturating_div(saturating_mul(existing, share), SCALE_BYTES)

pool_burn_result(pool, burned_amount, return_amount0, return_amount1) ==
    IF return_amount0 = <<>> \/ return_amount1 = <<>>
    THEN [flaw |-> Flaw("InsufficientOutputAmount"), out_values |-> <<>>, pool |-> pool]
    ELSE [flaw |-> NoFlaw,
          out_values |-> <<return_amount0, return_amount1>>,
          pool |-> [amounts |-> <<saturating_sub_bytes(pool.amounts[1], return_amount0),
                                  saturating_sub_bytes(pool.amounts[2], return_amount1)>>,
                    total_supply |-> saturating_sub_bytes(pool.total_supply, burned_amount)]]

pool_burn_shared(pool, burned_amount, share) ==
    pool_burn_result(pool, burned_amount,
                     pool_return_amount(pool.amounts[1], share),
                     pool_return_amount(pool.amounts[2], share))

pool_burn(pool, burned_amount) ==
    pool_burn_shared(pool, burned_amount, pool_share(burned_amount, pool.total_supply))

\* Pool amounts, supplies and burned amounts: small ones, the 1000 and 100
\* of the worked example, and values near the top of u128.
PoolAmountChoices == {<<>>, <<1>>, <<3>>, <<232, 3>>, PowerOf256(15)}
PoolSupplyChoices ==
    {<<1>>, <<2>>, <<232, 3>>, PowerOf256(15), [i \in 1..U128Bytes |-> IF i = U128Bytes THEN 3 ELSE 0]}
PoolBurnChoices == {<<1>>, <<2>>, <<100>>, <<232, 3>>, PowerOf256(15)}

\* A pool and the shares burned against it: at most the total supply.
InitPool ==
    /\ database = EmptyDatabase
    /\ is_read_only = FALSE
    /\ unallocated_inputs = DefaultAllocation
    /\ allocated_outputs = EmptyMap
    /\ pc = "idle"
    /\ tx = NoTx
    /\ block_tx = <<0, 0>>
    /\ outcome = NoOutcome
    /\ ntx = 0
    /\ before = database
    /\ call \in {c \in {[name |-> "pool_burn",
                          pool |-> [amounts |-> <<a0, a1>>, total_supply |-> t],
                          burned_amount |-> b] :
                            a0 \in PoolAmountChoices, a1 \in PoolAmountChoices,
                            t \in PoolSupplyChoices, b \in PoolBurnChoices} :
                    ~less_bytes(c.pool.total_supply, c.burned_amount)}
    /\ database2 = EmptyDatabase

PoolBurn ==
    /\ pc = "idle"
    /\ call.name = "pool_burn"
    /\ call' = [name |-> "pool_burn_done", pool |-> call.pool,
                burned_amount |-> call.burned_amount,
                result |-> pool_burn(call.pool, call.burned_amount)]
    /\ pc' = "computed"
    /\ UNCHANGED <<database, is_read_only, unallocated_inputs, allocated_outputs, tx,
                   block_tx, outcome, ntx, before, database2>>

NextPool == PoolBurn

SpecPool == InitPool /\ [][NextPool]_vars

\* A pool and any burned amount, amounts beyond the total supply included.
InitPoolAny ==
    /\ database = EmptyDatabase
    /\ is_read_only = FALSE
    /\ unallocated_inputs = DefaultAllocation
    /\ allocated_outputs = EmptyMap
    /\ pc = "idle"
    /\ tx = NoTx
    /\ block_tx = <<0, 0>>
    /\ outcome = NoOutcome
    /\ ntx = 0
    /\ before = database
    /\ call \in {[name |-> "pool_burn",
                  pool |-> [amounts |-> <<a0, a1>>, total_supply |-> t],
                  burned_amount |-> b] :
                    a0 \in PoolAmountChoices, a1 \in PoolAmountChoices,
                    t \in PoolSupplyChoices, b \in PoolBurnChoices}
    /\ database2 = EmptyDatabase

SpecPoolAny == InitPoolAny /\ [][NextPool]_vars

\* --------------------------------------------------------------- the codec
\* Scripts, payloads and raw transactions are sequences of bytes.
OP_RETURN == 106
\* The ASCII tag "GLITTR".
OP_RETURN_MAGIC_PREFIX == <<71, 76, 73, 84, 84, 82>>

\* The byte at position p of b, -1 past its end.
At(b, p) == IF p \in 1..Len(b) THEN b[p] ELSE -1

RECURSIVE le_bytes(_, _)
le_bytes(x, n) == IF n = 0 THEN <<>> ELSE <<x % 256>> \o le_bytes(x \div 256, n - 1)

\* Builder::push_slice with a single-byte length whatever the length is.
push_slice_short(data) == <<Len(data) % 256>> \o data

\* Builder::push_slice: the data behind the shortest push opcode for its
\* length (OP_PUSHBYTES_n, OP_PUSHDATA1, OP_PUSHDATA2, OP_PUSHDATA4).
push_slice(data) ==
    IF Len(data) < 76 THEN <<Len(data)>> \o data
    ELSE IF Len(data) < 256 THEN <<76, Len(data)>> \o data
    ELSE IF Len(data) < 65536 THEN <<77>> \o le_bytes(Len(data), 2) \o data
    ELSE <<78>> \o le_bytes(Len(data), 4) \o data

\* Instruction: an opcode, a push with its data, or the error that ends the
\* iteration of a script cut short.
Op(b) == [kind |-> "op", op |-> b, bytes |-> <<>>]
PushBytes(bytes) == [kind |-> "push", op |-> 0, bytes |-> bytes]
ScriptError == [kind |-> "err", op |-> 0, bytes |-> <<>>]

\* Script::instructions: OP_0 to OP_PUSHBYTES_75 and OP_PUSHDATA1/2/4 are
\* pushes, every other byte is an opcode.
RECURSIVE instructions_from(_, _)
read_push(script, p, n) ==
    IF p + n - 1 > Len(script) THEN <<ScriptError>>
    ELSE <<PushBytes(SubSeq(script, p, p + n - 1))>> \o instructions_from(script, p + n)

read_push_data(script, p, width) ==
    IF p + width - 1 > Len(script) THEN <<ScriptError>>
    ELSE read_push(script, p + width, bytes_value(SubSeq(script, p, p + width - 1)))

instructions_from(script, p) ==
    IF p > Len(script) THEN <<>>
    ELSE IF script[p] < 76 THEN read_push(script, p + 1, script[p])
    ELSE IF script[p] = 76 THEN read_push_data(script, p + 1, 1)
    ELSE IF script[p] = 77 THEN read_push_data(script, p + 1, 2)
    ELSE IF script[p] = 78 THEN read_push_data(script, p + 1, 4)
    ELSE <<Op(script[p])>> \o instructions_from(script, p + 1)

instructions(script) == instructions_from(script, 1)

\* ---- serde_json::to_string of an OpReturnMessage
S_transfer == <<116, 114, 97, 110, 115, 102, 101, 114>>
S_transfers == <<116, 114, 97, 110, 115, 102, 101, 114, 115>>
S_asset == <<97, 115, 115, 101, 116>>
S_output == <<111, 117, 116, 112, 117, 116>>
S_amount == <<97, 109, 111, 117, 110, 116>>
S_contract_creation == <<99, 111, 110, 116, 114, 97, 99, 116, 95, 99, 114, 101, 97, 116, 105, 111, 110>>
S_contract_type == <<99, 111, 110, 116, 114, 97, 99, 116, 95, 116, 121, 112, 101>>
S_spec == <<115, 112, 101, 99>>
S_contract_call == <<99, 111, 110, 116, 114, 97, 99, 116, 95, 99, 97, 108, 108>>
S_contract == <<99, 111, 110, 116, 114, 97, 99, 116>>
S_call_type == <<99, 97, 108, 108, 95, 116, 121, 112, 101>>
S_mint == <<109, 105, 110, 116>>
S_burn == <<98, 117, 114, 110>>
S_pointer == <<112, 111, 105, 110, 116, 101, 114>>
S_moa == <<109, 111, 97>>
S_supply_cap == <<115, 117, 112, 112, 108, 121, 95, 99, 97, 112>>
S_live_time == <<108, 105, 118, 101, 95, 116, 105, 109, 101>>
S_end_time == <<101, 110, 100, 95, 116, 105, 109, 101>>
S_mint_mechanism == <<109, 105, 110, 116, 95, 109, 101, 99, 104, 97, 110, 105, 115, 109>>
S_free_mint == <<102, 114, 101, 101, 95, 109, 105, 110, 116>>
S_amount_per_mint == <<97, 109, 111, 117, 110, 116, 95, 112, 101, 114, 95, 109, 105, 110, 116>>
S_null == <<110, 117, 108, 108>>

\* The decimal digits of n.
RECURSIVE digits(_)
digits(n) == IF n < 10 THEN <<48 + n>> ELSE digits(n \div 10) \o <<48 + (n % 10)>>

quoted(s) == <<34>> \o s \o <<34>>

RECURSIVE joined(_, _)
joined(parts, k) ==
    IF k > Len(parts) THEN <<>>
    ELSE (IF k > 1 THEN <<44>> ELSE <<>>) \o parts[k] \o joined(parts, k + 1)

ser_field(key, value) == quoted(key) \o <<58>> \o value
ser_struct(fields) == <<123>> \o joined(fields, 1) \o <<125>>
ser_seq(items) == <<91>> \o joined(items, 1) \o <<93>>

\* U128 is written as a string of digits, a BlockTxTuple as [block, tx].
ser_U128(n) == quoted(digits(n))
ser_block_tx(c) == ser_seq(<<digits(c[1]), digits(c[2])>>)

\* A field under skip_serializing_none: left out when None.
ser_some_field(key, option, value) == IF option.some THEN <<ser_field(key, value)>> ELSE <<>>

ser_TxTypeTransfer(e) ==
    ser_struct(<<ser_field(S_asset, ser_block_tx(e.asset)),
                 ser_field(S_output, digits(e.output)),
                 ser_field(S_amount, ser_U128(e.amount))>>)

ser_Transfer(list) ==
    ser_struct(<<ser_field(S_transfers,
                           ser_seq([i \in 1..Len(list) |-> ser_TxTypeTransfer(list[i])]))>>)

\* ContractType::Moa with the free-mint mechanism.
ser_ContractType(c) ==
    ser_struct(<<ser_field(S_moa,
        ser_struct(
            ser_some_field(S_supply_cap, c.supply_cap, ser_U128(c.supply_cap.v))
            \o <<ser_field(S_live_time, digits(c.live_time))>>
            \o ser_some_field(S_end_time, c.end_time, digits(c.end_time.v))
            \o <<ser_field(S_mint_mechanism,
                   ser_struct(<<ser_field(S_free_mint,
                       ser_struct(<<ser_field(S_amount_per_mint,
                                              ser_U128(c.amount_per_mint))>>))>>))>>))>>)

ser_ContractCreation(creation) ==
    ser_struct(<<ser_field(S_contract_type, ser_ContractType(creation.contract_type)),
                 ser_field(S_spec, IF creation.spec.some
                                   THEN ser_block_tx(creation.spec.v) ELSE S_null)>>)

\* CallType::Mint(MintBurnOption) and CallType::Burn(MintBurnOption).
ser_CallType(call_type) ==
    IF call_type.kind = "mint"
    THEN ser_struct(<<ser_field(S_mint,
             ser_struct(<<ser_field(S_pointer, digits(call_type.option.pointer))>>))>>)
    ELSE ser_struct(<<ser_field(S_burn, ser_struct(<<>>))>>)

ser_ContractCall(contract_call) ==
    ser_struct(<<ser_field(S_contract, ser_block_tx(contract_call.contract)),
                 ser_field(S_call_type, ser_CallType(contract_call.call_type))>>)

\* Display for OpReturnMessage: the JSON text of the message.
to_string(m) ==
    ser_struct(
        ser_some_field(S_transfer, m.transfer, ser_Transfer(m.transfer.v))
        \o ser_some_field(S_contract_creation, m.contract_creation,
                          ser_ContractCreation(m.contract_creation.v))
        \o ser_some_field(S_contract_call, m.contract_call,
                          ser_ContractCall(m.contract_call.v)))

\* OpReturnMessage::into_script with push_slice for each push.
into_script(m) ==
    <<OP_RETURN>> \o push_slice(OP_RETURN_MAGIC_PREFIX) \o push_slice(to_string(m))

\* ---- serde_json: the text of a payload read into a JSON value
JNull == [t |-> "null"]
JNum(n) == [t |-> "num", n |-> n]
JStr(s) == [t |-> "str", s |-> s]
JArr(items) == [t |-> "arr", items |-> items]
JObj(members) == [t |-> "obj", members |-> members]

Parsed(v, pos) == [ok |-> TRUE, v |-> v, pos |-> pos]
Failed == [ok |-> FALSE]

is_digit(c) == c \in 48..57

RECURSIVE skip_ws(_, _)
skip_ws(b, p) == IF At(b, p) \in {32, 9, 10, 13} THEN skip_ws(b, p + 1) ELSE p

RECURSIVE parse_number(_, _, _)
parse_number(b, p, n) ==
    IF is_digit(At(b, p)) THEN parse_number(b, p + 1, n * 10 + (b[p] - 48))
    ELSE Parsed(JNum(n), p)

\* A string without escape sequences, from the byte after its opening quote.
RECURSIVE parse_string(_, _, _)
parse_string(b, p, s) ==
    IF At(b, p) = 34 THEN Parsed(JStr(s), p + 1)
    ELSE IF At(b, p) < 32 \/ At(b, p) = 92 THEN Failed
    ELSE parse_string(b, p + 1, Append(s, b[p]))

RECURSIVE parse_value(_, _)
RECURSIVE parse_items(_, _, _)
RECURSIVE parse_members(_, _, _)

items_after(b, r, acc) ==
    IF ~r.ok THEN Failed
    ELSE IF At(b, skip_ws(b, r.pos)) = 44
    THEN parse_items(b, skip_ws(b, skip_ws(b, r.pos) + 1), Append(acc, r.v))
    ELSE IF At(b, skip_ws(b, r.pos)) = 93
    THEN Parsed(JArr(Append(acc, r.v)), skip_ws(b, r.pos) + 1)
    ELSE Failed

parse_items(b, p, acc) == items_after(b, parse_value(b, p), acc)

members_after_value(b, key, r, acc) ==
    IF ~r.ok THEN Failed
    ELSE IF At(b, skip_ws(b, r.pos)) = 44
    THEN parse_members(b, skip_ws(b, skip_ws(b, r.pos) + 1),
                       Append(acc, [key |-> key, value |-> r.v]))
    ELSE IF At(b, skip_ws(b, r.pos)) = 125
    THEN Parsed(JObj(Append(acc, [key |-> key, value |-> r.v])), skip_ws(b, r.pos) + 1)
    ELSE Failed

members_after_key(b, k, acc) ==
    IF ~k.ok THEN Failed
    ELSE IF At(b, skip_ws(b, k.pos)) # 58 THEN Failed
    ELSE members_after_value(b, k.v.s,
                             parse_value(b, skip_ws(b, skip_ws(b, k.pos) + 1)), acc)

parse_members(b, p, acc) ==
    IF At(b, p) # 34 THEN Failed
    ELSE members_after_key(b, parse_string(b, p + 1, <<>>), acc)

parse_value(b, p) ==
    CASE At(b, p) = 123 ->
            IF At(b, skip_ws(b, p + 1)) = 125
            THEN Parsed(JObj(<<>>), skip_ws(b, p + 1) + 1)
            ELSE parse_members(b, skip_ws(b, p + 1), <<>>)
      [] At(b, p) = 91 ->
            IF At(b, skip_ws(b, p + 1)) = 93
            THEN Parsed(JArr(<<>>), skip_ws(b, p + 1) + 1)
            ELSE parse_items(b, skip_ws(b, p + 1), <<>>)
      [] At(b, p) = 34 -> parse_string(b, p + 1, <<>>)
      [] is_digit(At(b, p)) -> parse_number(b, p, 0)
      [] At(b, p) = 110 ->
            IF p + 3 <= Len(b) /\ SubSeq(b, p, p + 3) = S_null
            THEN Parsed(JNull, p + 4)
            ELSE Failed
      [] OTHER -> Failed

\* ---- the derived Deserialize of the message types
fields_named(j, key) == SelectSeq(j.members, LAMBDA m : m.key = key)

\* The fields named are there, once each.
has_fields(j, keys) == \A key \in keys : Len(fields_named(j, key)) = 1
no_duplicate(j, keys) == \A key \in keys : Len(fields_named(j, key)) <= 1

field(j, key) == fields_named(j, key)[1].value

\* An Option field is None when it is missing or null.
is_none(j, key) == fields_named(j, key) = <<>> \/ field(j, key).t = "null"

de_u32(j) == IF j.t = "num" THEN Ok(j.n) ELSE Failed

de_U128(j) ==
    IF j.t = "str" /\ j.s # <<>> /\ \A i \in 1..Len(j.s) : is_digit(j.s[i])
    THEN Ok(parse_number(j.s, 1, 0).v.n)
    ELSE Failed

de_block_tx(j) ==
    IF j.t = "arr" /\ Len(j.items) = 2 /\ j.items[1].t = "num" /\ j.items[2].t = "num"
    THEN Ok(<<j.items[1].n, j.items[2].n>>)
    ELSE Failed

de_TxTypeTransfer(j) ==
    IF /\ j.t = "obj"
       /\ has_fields(j, {S_asset, S_output, S_amount})
       /\ de_block_tx(field(j, S_asset)).ok
       /\ de_u32(field(j, S_output)).ok
       /\ de_U128(field(j, S_amount)).ok
    THEN Ok(TxTypeTransfer(de_block_tx(field(j, S_asset)).v,
                           de_u32(field(j, S_output)).v,
                           de_U128(field(j, S_amount)).v))
    ELSE Failed

de_transfers(j) ==
    IF j.t = "arr" /\ \A i \in 1..Len(j.items) : de_TxTypeTransfer(j.items[i]).ok
    THEN Ok([i \in 1..Len(j.items) |-> de_TxTypeTransfer(j.items[i]).v])
    ELSE Failed

de_Transfer(j) ==
    IF j.t = "obj" /\ has_fields(j, {S_transfers}) THEN de_transfers(field(j, S_transfers))
    ELSE Failed

\* The free-mint mechanism of a mint-only asset.
de_FreeMint(j) ==
    IF j.t = "obj" /\ has_fields(j, {S_amount_per_mint})
    THEN de_U128(field(j, S_amount_per_mint))
    ELSE Failed

de_mint_mechanism(j) ==
    IF j.t = "obj" /\ has_fields(j, {S_free_mint}) THEN de_FreeMint(field(j, S_free_mint))
    ELSE Failed

de_MintOnlyAssetContract(j) ==
    IF /\ j.t = "obj"
       /\ has_fields(j, {S_live_time, S_mint_mechanism})
       /\ no_duplicate(j, {S_supply_cap, S_end_time})
       /\ is_none(j, S_supply_cap) \/ de_U128(field(j, S_supply_cap)).ok
       /\ de_u32(field(j, S_live_time)).ok
       /\ is_none(j, S_end_time) \/ de_u32(field(j, S_end_time)).ok
       /\ de_mint_mechanism(field(j, S_mint_mechanism)).ok
    THEN Ok(FreeMintContractUntil(
                IF is_none(j, S_supply_cap) THEN None
                ELSE Some(de_U128(field(j, S_supply_cap)).v),
                de_mint_mechanism(field(j, S_mint_mechanism)).v,
                de_u32(field(j, S_live_time)).v,
                IF is_none(j, S_end_time) THEN None
                ELSE Some(de_u32(field(j, S_end_time)).v)))
    ELSE Failed

\* An enum is an object with one member, named after the variant.
de_ContractType(j) ==
    IF j.t = "obj" /\ Len(j.members) = 1 /\ j.members[1].key = S_moa
    THEN de_MintOnlyAssetContract(j.members[1].value)
    ELSE Failed

de_ContractCreation(j) ==
    IF /\ j.t = "obj"
       /\ has_fields(j, {S_contract_type})
       /\ no_duplicate(j, {S_spec})
       /\ de_ContractType(field(j, S_contract_type)).ok
       /\ is_none(j, S_spec) \/ de_block_tx(field(j, S_spec)).ok
    THEN Ok([contract_type |-> de_ContractType(field(j, S_contract_type)).v,
             spec |-> IF is_none(j, S_spec) THEN None
                      ELSE Some(de_block_tx(field(j, S_spec)).v)])
    ELSE Failed

de_MintBurnOption(j) ==
    IF /\ j.t = "obj"
       /\ no_duplicate(j, {S_pointer})
       /\ is_none(j, S_pointer) \/ de_u32(field(j, S_pointer)).ok
    THEN Ok(IF is_none(j, S_pointer) THEN MintOption(None)
            ELSE MintOption(de_u32(field(j, S_pointer)).v))
    ELSE Failed

de_CallType(j) ==
    IF j.t = "obj" /\ Len(j.members) = 1 /\ j.members[1].key \in {S_mint, S_burn}
         /\ de_MintBurnOption(j.members[1].value).ok
    THEN Ok(IF j.members[1].key = S_mint
            THEN [kind |-> "mint", option |-> de_MintBurnOption(j.members[1].value).v]
            ELSE [kind |-> "burn"])
    ELSE Failed

de_ContractCall(j) ==
    IF /\ j.t = "obj"
       /\ has_fields(j, {S_call_type})
       /\ no_duplicate(j, {S_contract})
       /\ is_none(j, S_contract) \/ de_block_tx(field(j, S_contract)).ok
       /\ de_CallType(field(j, S_call_type)).ok
    THEN Ok([contract |-> IF is_none(j, S_contract) THEN None
                          ELSE de_block_tx(field(j, S_contract)).v,
             call_type |-> de_CallType(field(j, S_call_type)).v])
    ELSE Failed

de_OpReturnMessage(j) ==
    IF /\ j.t = "obj"
       /\ no_duplicate(j, {S_transfer, S_contract_creation, S_contract_call})
       /\ is_none(j, S_transfer) \/ de_Transfer(field(j, S_transfer)).ok
       /\ is_none(j, S_contract_creation)
            \/ de_ContractCreation(field(j, S_contract_creation)).ok
       /\ is_none(j, S_contract_call) \/ de_ContractCall(field(j, S_contract_call)).ok
    THEN Ok(OpReturnMessage(
                IF is_none(j, S_transfer) THEN None
                ELSE Some(de_Transfer(field(j, S_transfer)).v),
                IF is_none(j, S_contract_creation) THEN None
                ELSE Some(de_ContractCreation(field(j, S_contract_creation)).v),
                IF is_none(j, S_contract_call) THEN None
                ELSE Some(de_ContractCall(field(j, S_contract_call)).v)))
    ELSE Failed

\* OpReturnMessage::deserialize on a Deserializer over the payload: the
\* first JSON value is read, what follows it is not looked at.
deserialize_parsed(r) == IF r.ok THEN de_OpReturnMessage(r.v) ELSE Failed

deserialize_message(payload) == deserialize_parsed(parse_value(payload, skip_ws(payload, 1)))

\* ---- OpReturnMessage::parse_tx
InvalidInstruction(op) == [kind |-> "InvalidInstruction", op |-> op]

\* The script opens with OP_RETURN and a push of the magic prefix.
is_carrier(ins) ==
    /\ Len(ins) >= 2
    /\ ins[1].kind = "op" /\ ins[1].op = OP_RETURN
    /\ ins[2].kind = "push" /\ ins[2].bytes = OP_RETURN_MAGIC_PREFIX

\* The loop over the rest of the carrier's instructions.
RECURSIVE payload_from(_, _, _)
payload_from(ins, k, payload) ==
    IF k > Len(ins) THEN Ok(payload)
    ELSE IF ins[k].kind = "push" THEN payload_from(ins, k + 1, payload \o ins[k].bytes)
    ELSE IF ins[k].kind = "op" THEN Err(InvalidInstruction(ins[k].op))
    ELSE Err(Flaw("InvalidScript"))

\* The loop over the outputs, left at the first carrier.
RECURSIVE scan_outputs(_, _)
scan_outputs(t, i) ==
    IF i > Len(t.output) THEN Ok(<<>>)
    ELSE IF is_carrier(instructions(t.output[i].script_pubkey))
    THEN payload_from(instructions(t.output[i].script_pubkey), 3, <<>>)
    ELSE scan_outputs(t, i + 1)

\* scan_outputs that goes on to the next output when a carrier gave no payload.
RECURSIVE scan_outputs_on(_, _)
scan_outputs_on(t, i) ==
    IF i > Len(t.output) THEN Ok(<<>>)
    ELSE IF is_carrier(instructions(t.output[i].script_pubkey))
            /\ payload_from(instructions(t.output[i].script_pubkey), 3, <<>>) # Ok(<<>>)
    THEN payload_from(instructions(t.output[i].script_pubkey), 3, <<>>)
    ELSE scan_outputs_on(t, i + 1)

checked_message(message) ==
    IF ~message.ok THEN Err(Flaw("FailedDeserialization"))
    ELSE IF ~message.v.contract_call.some /\ ~message.v.contract_creation.some
            /\ ~message.v.transfer.some
    THEN Err(Flaw("FailedDeserialization"))
    ELSE Ok(message.v)

parse_payload(scanned) ==
    IF ~scanned.ok THEN scanned
    ELSE IF scanned.v = <<>> THEN Err(Flaw("NonGlittrMessage"))
    ELSE checked_message(deserialize_message(scanned.v))

parse_tx_on(t) == parse_payload(scan_outputs_on(t, 1))

parse_tx(t) == parse_payload(scan_outputs(t, 1))

\* ---- the raw transaction: consensus encoding and hex
\* A TxIn keeps its outpoint (36 bytes), script and sequence (4 bytes) as
\* bytes; a TxOut has a value and a script.
TxIn(previous_output, script_sig, sequence, witness) ==
    [previous_output |-> previous_output, script_sig |-> script_sig,
     sequence |-> sequence, witness |-> witness]
ScriptTxOut(value, script_pubkey) == [value |-> value, script_pubkey |-> script_pubkey]
RawTransaction(version, input, output, lock_time) ==
    [version |-> version, input |-> input, output |-> output, lock_time |-> lock_time]

\* VarInt
var_int(n) ==
    IF n < 253 THEN <<n>>
    ELSE IF n < 65536 THEN <<253>> \o le_bytes(n, 2)
    ELSE <<254>> \o le_bytes(n, 4)

var_bytes(b) == var_int(Len(b)) \o b

RECURSIVE concat(_, _)
concat(parts, k) == IF k > Len(parts) THEN <<>> ELSE parts[k] \o concat(parts, k + 1)

encode_vec(items) == var_int(Len(items)) \o concat(items, 1)

encode_txin(i) == i.previous_output \o var_bytes(i.script_sig) \o i.sequence
encode_txout(o) == le_bytes(o.value, 8) \o var_bytes(o.script_pubkey)
encode_witness(i) == encode_vec([k \in 1..Len(i.witness) |-> var_bytes(i.witness[k])])

\* Transaction::uses_segwit_serialization: a witness somewhere, or no input.
uses_segwit_serialization(t) ==
    (\E k \in 1..Len(t.input) : t.input[k].witness # <<>>) \/ t.input = <<>>

consensus_encode(t) ==
    le_bytes(t.version, 4)
    \o (IF uses_segwit_serialization(t) THEN <<0, 1>> ELSE <<>>)
    \o encode_vec([k \in 1..Len(t.input) |-> encode_txin(t.input[k])])
    \o encode_vec([k \in 1..Len(t.output) |-> encode_txout(t.output[k])])
    \o (IF uses_segwit_serialization(t)
        THEN concat([k \in 1..Len(t.input) |-> encode_witness(t.input[k])], 1)
        ELSE <<>>)
    \o le_bytes(t.lock_time, 4)

\* Lower-case hex, two characters a byte.
hex_char(n) == IF n < 10 THEN 48 + n ELSE 87 + n

hex_encode(b) ==
    [k \in 1..(2 * Len(b)) |->
        IF k % 2 = 1 THEN hex_char(b[(k + 1) \div 2] \div 16)
        ELSE hex_char(b[k \div 2] % 16)]

raw_hex(t) == hex_encode(consensus_encode(t))

hex_value(c) ==
    IF c \in 48..57 THEN c - 48
    ELSE IF c \in 97..102 THEN c - 87
    ELSE IF c \in 65..70 THEN c - 55
    ELSE -1

\* hex::decode
hex_decode(h) ==
    IF Len(h) % 2 = 1 \/ \E k \in 1..Len(h) : hex_value(h[k]) < 0 THEN Failed
    ELSE Ok([k \in 1..(Len(h) \div 2) |->
                hex_value(h[2 * k - 1]) * 16 + hex_value(h[2 * k])])

\* Readers: the value read and the position after it.
read_bytes(b, p, n) ==
    IF p + n - 1 > Len(b) THEN Failed ELSE Parsed(SubSeq(b, p, p + n - 1), p + n)

read_int(b, p, n) ==
    IF p + n - 1 > Len(b) THEN Failed
    ELSE Parsed(bytes_value(SubSeq(b, p, p + n - 1)), p + n)

read_var_int(b, p) ==
    IF At(b, p) < 0 THEN Failed
    ELSE IF b[p] < 253 THEN Parsed(b[p], p + 1)
    ELSE IF b[p] = 253 THEN read_int(b, p + 1, 2)
    ELSE IF b[p] = 254 THEN read_int(b, p + 1, 4)
    ELSE Failed

read_counted(b, n) == IF n.ok THEN read_bytes(b, n.pos, n.v) ELSE Failed
read_var_bytes(b, p) == read_counted(b, read_var_int(b, p))

txin_read(outpoint, script, sequence) ==
    IF sequence.ok THEN Parsed(TxIn(outpoint.v, script.v, sequence.v, <<>>), sequence.pos)
    ELSE Failed
txin_after_script(b, outpoint, script) ==
    IF script.ok THEN txin_read(outpoint, script, read_bytes(b, script.pos, 4)) ELSE Failed
txin_after_outpoint(b, outpoint) ==
    IF outpoint.ok THEN txin_after_script(b, outpoint, read_var_bytes(b, outpoint.pos))
    ELSE Failed
read_txin(b, p) == txin_after_outpoint(b, read_bytes(b, p, 36))

txout_read(value, script) ==
    IF script.ok THEN Parsed(ScriptTxOut(value.v, script.v), script.pos) ELSE Failed
txout_after_value(b, value) ==
    IF value.ok THEN txout_read(value, read_var_bytes(b, value.pos)) ELSE Failed
read_txout(b, p) == txout_after_value(b, read_int(b, p, 8))

\* n more items of a vector, each read by read_txin, read_txout or
\* read_var_bytes according to what.
RECURSIVE read_items(_, _, _, _, _)
items_read(b, what, item, n, acc) ==
    IF item.ok THEN read_items(b, what, item.pos, n - 1, Append(acc, item.v)) ELSE Failed
read_items(b, what, p, n, acc) ==
    IF n = 0 THEN Parsed(acc, p)
    ELSE items_read(b, what,
                    CASE what = "txin" -> read_txin(b, p)
                      [] what = "txout" -> read_txout(b, p)
                      [] OTHER -> read_var_bytes(b, p),
                    n, acc)

read_counted_items(b, what, n) ==
    IF n.ok THEN read_items(b, what, n.pos, n.v, <<>>) ELSE Failed
read_vec(b, what, p) == read_counted_items(b, what, read_var_int(b, p))

\* The witnesses of the inputs, in order, put into the inputs.
RECURSIVE read_witnesses(_, _, _, _)
witness_read(b, inputs, k, witness) ==
    IF witness.ok
    THEN read_witnesses(b, [inputs EXCEPT ![k].witness = witness.v], k + 1, witness.pos)
    ELSE Failed
read_witnesses(b, inputs, k, p) ==
    IF k > Len(inputs) THEN Parsed(inputs, p)
    ELSE witness_read(b, inputs, k, read_vec(b, "witness", p))

\* The lock time ends the transaction; deserialize refuses bytes left over.
tx_read(b, version, input, output, lock_time) ==
    IF lock_time.ok /\ lock_time.pos = Len(b) + 1
    THEN Ok(RawTransaction(version, input, output, lock_time.v))
    ELSE Failed

segwit_after_witnesses(b, version, output, input) ==
    IF ~input.ok THEN Failed
    ELSE IF input.v # <<>> /\ \A k \in 1..Len(input.v) : input.v[k].witness = <<>>
    THEN Failed
    ELSE tx_read(b, version, input.v, output.v, read_int(b, input.pos, 4))

segwit_after_outputs(b, version, input, output) ==
    IF output.ok
    THEN segwit_after_witnesses(b, version, output,
                                read_witnesses(b, input.v, 1, output.pos))
    ELSE Failed

segwit_after_inputs(b, version, input) ==
    IF input.ok THEN segwit_after_outputs(b, version, input, read_vec(b, "txout", input.pos))
    ELSE Failed

legacy_after_outputs(b, version, input, output) ==
    IF output.ok THEN tx_read(b, version, input.v, output.v, read_int(b, output.pos, 4))
    ELSE Failed

\* With an empty input vector the next byte is the segwit flag, which must be 1.
decode_after_inputs(b, version, input) ==
    IF ~input.ok THEN Failed
    ELSE IF input.v = <<>>
    THEN IF At(b, input.pos) = 1
         THEN segwit_after_inputs(b, version, read_vec(b, "txin", input.pos + 1))
         ELSE Failed
    ELSE legacy_after_outputs(b, version, input, read_vec(b, "txout", input.pos))

decode_after_version(b, version) ==
    IF version.ok THEN decode_after_inputs(b, version.v, read_vec(b, "txin", version.pos))
    ELSE Failed

\* bitcoin::consensus::deserialize::<Transaction>
consensus_decode(b) == decode_after_version(b, read_int(b, 1, 4))

decode_hex(h) == IF h.ok THEN consensus_decode(h.v) ELSE Failed

\* hex::decode(tx.raw_hex()) and deserialize, as the second test does.
raw_hex_round_trip(t) == decode_hex(hex_decode(raw_hex(t)))

\* ---- messages, scripts and transactions the codec is run on
\* The message of create_dummy_tx.
DummyMessage ==
    OpReturnMessage(None,
                    Some(ContractCreation(FreeMintContractUntil(Some(1000), 10, 0, None))),
                    None)

CodecTransfers ==
    LET entries == {TxTypeTransfer(<<1, 0>>, 0, 1), TxTypeTransfer(<<2, 1>>, 1, 10)}
    IN UNION {[1..n -> entries] : n \in 1..MaxTransfers}

CodecCalls ==
    {MintCall(<<1, 0>>, MintOption(0)), MintCall(<<2, 1>>, MintOption(1)),
     BurnCall(<<1, 0>>)}

\* Messages with one part, and one with all three.
CodecMessages ==
    {OpReturnMessage(Some(l), None, None) : l \in CodecTransfers}
    \cup {DummyMessage,
          OpReturnMessage(None,
                          Some(ContractCreation(FreeMintContractUntil(None, 1, 2, Some(3)))),
                          None)}
    \cup {OpReturnMessage(None, None, Some(c)) : c \in CodecCalls}
    \cup {OpReturnMessage(Some(<<TxTypeTransfer(<<1, 0>>, 0, 1),
                                 TxTypeTransfer(<<2, 1>>, 1, 10)>>),
                          DummyMessage.contract_creation,
                          Some(MintCall(<<1, 0>>, MintOption(0))))}

EmptyMessage == OpReturnMessage(None, None, None)

\* A pay-to-witness-program script, cut to a program of two bytes.
WalletScript == <<0, 2, 7, 7>>

SpentInput == TxIn([k \in 1..36 |-> IF k = 1 THEN 9 ELSE 0], <<>>, AllOnes(4), <<>>)
SignedInput == TxIn([k \in 1..36 |-> IF k = 1 THEN 8 ELSE 0], <<>>, AllOnes(4), <<<<1, 2>>>>)

CodecInputs == {<<>>, <<SpentInput>>, <<SignedInput>>}

\* The payloads of the scripts built by hand: the text of a message, of
\* the message with no part, bytes that are no JSON, a text cut short, and
\* a text followed by other bytes.
TransferPayload == to_string(OpReturnMessage(Some(<<TxTypeTransfer(<<1, 0>>, 0, 1)>>), None, None))
CallPayload == to_string(OpReturnMessage(None, None, Some(BurnCall(<<1, 0>>))))

PayloadChoices ==
    {TransferPayload, CallPayload, to_string(EmptyMessage), <<1, 2>>,
     SubSeq(TransferPayload, 1, 20), TransferPayload \o <<32, 1>>}

\* OP_RETURN, the magic prefix, then the tail.
Carrying(tail) == <<OP_RETURN>> \o push_slice(OP_RETURN_MAGIC_PREFIX) \o tail

\* 118 is OP_DUP; <<5, 1, 2>> is a push of five bytes cut after two.
ScriptChoices ==
    {WalletScript, <<OP_RETURN>>, <<OP_RETURN, 3, 1, 2, 3>>, <<OP_RETURN, 6, 71, 76>>, <<76>>,
     Carrying(<<>>), Carrying(<<0>>)}
    \cup {Carrying(push_slice(p)) : p \in PayloadChoices}
    \cup {Carrying(push_slice(SubSeq(TransferPayload, 1, 30))
                   \o push_slice(SubSeq(TransferPayload, 31, Len(TransferPayload)))),
          Carrying(push_slice(TransferPayload) \o <<118>>),
          Carrying(push_slice(TransferPayload) \o <<5, 1, 2>>),
          Carrying(<<118, 5, 1, 2>>)}

ScriptOutputChoices ==
    UNION {[1..n -> {ScriptTxOut(0, s) : s \in ScriptChoices}] : n \in 1..MaxOut}

NoResult == [ok |-> FALSE, flaw |-> NoFlaw]

\* create_dummy_tx: a transaction whose carrier is m.into_script(), alone
\* or behind a wallet output.
CreateDummyTx ==
    /\ pc = "idle"
    /\ call = NoCall
    /\ \E m \in CodecMessages \cup {EmptyMessage}, input \in CodecInputs,
          leading \in {<<>>, <<ScriptTxOut(1, WalletScript)>>} :
         /\ tx' = RawTransaction(2, input, leading \o <<ScriptTxOut(0, into_script(m))>>, 0)
         /\ call' = [name |-> "into_script", message |-> m, result |-> NoResult]
    /\ pc' = "built"
    /\ UNCHANGED <<database, is_read_only, unallocated_inputs, allocated_outputs,
                   block_tx, outcome, ntx, before, database2>>

\* A transaction with scripts built by hand.
BuildTx ==
    /\ pc = "idle"
    /\ call = NoCall
    /\ \E output \in ScriptOutputChoices : tx' = RawTransaction(2, <<>>, output, 0)
    /\ call' = [name |-> "scripts", message |-> EmptyMessage, result |-> NoResult]
    /\ pc' = "built"
    /\ UNCHANGED <<database, is_read_only, unallocated_inputs, allocated_outputs,
                   block_tx, outcome, ntx, before, database2>>

\* The transaction goes through its raw hex and back.
RawHex ==
    /\ pc = "built"
    /\ IF raw_hex_round_trip(tx).ok
       THEN tx' = raw_hex_round_trip(tx).v /\ pc' = "decoded"
       ELSE tx' = tx /\ pc' = "undecodable"
    /\ UNCHANGED <<database, is_read_only, unallocated_inputs, allocated_outputs,
                   block_tx, outcome, ntx, before, call, database2>>

ParseTx ==
    /\ pc \in {"built", "decoded"}
    /\ call' = [call EXCEPT !.result = parse_tx(tx)]
    /\ pc' = IF pc = "built" THEN "parsed" ELSE "parsed_raw"
    /\ UNCHANGED <<database, is_read_only, unallocated_inputs, allocated_outputs,
                   tx, block_tx, outcome, ntx, before, database2>>

NextParse == CreateDummyTx \/ BuildTx \/ RawHex \/ ParseTx

SpecParse == Init /\ [][NextParse]_vars

\* ------------------------------------------------- the allocation engine
\* The allocation engine on its own: an Updater in the middle of a
\* transaction, its buckets holding any balances of A and B, on which
\* move_asset_allocation is called.
AllocContracts == {ContractA, ContractB}
AllocVouts == 0..(MaxOut - 1)

\* An unallocated entry can be 0 (a stored balance of 0 that was spent); an
\* allocated entry is credited with a positive amount.
AssetLists(lowest) ==
    UNION {[S -> lowest..MaxAmount] : S \in SUBSET AllocContracts}

AllocatedOutputs ==
    UNION {[V -> {[asset_list |-> l, spec_owned |-> <<>>] : l \in AssetLists(1) \ {EmptyMap}}] :
             V \in SUBSET AllocVouts}

InitAlloc ==
    /\ database = EmptyDatabase
    /\ is_read_only = FALSE
    /\ unallocated_inputs \in {[asset_list |-> l, spec_owned |-> <<>>] : l \in AssetLists(0)}
    /\ allocated_outputs \in AllocatedOutputs
    /\ pc = "unallocated"
    /\ tx = NoTx
    /\ block_tx = <<0, 0>>
    /\ outcome = NoOutcome
    /\ ntx = 0
    /\ before = database
    /\ call = NoCall
    /\ database2 = EmptyDatabase

MoveAssetAllocation ==
    /\ pc = "unallocated"
    /\ \E vout \in AllocVouts, contract_id \in AllocContracts \cup {UnknownContract},
          max_amount \in 0..(MaxAmount + 1) :
         /\ Install(move_asset_allocation(Self, vout, contract_id, max_amount))
         /\ call' = [name |-> "move_asset_allocation", vout |-> vout,
                     contract_id |-> contract_id, max_amount |-> max_amount]
    /\ UNCHANGED <<is_read_only, pc, tx, block_tx, outcome, ntx, before, database2>>

NextAlloc == MoveAssetAllocation

SpecAlloc == InitAlloc /\ [][NextAlloc]_vars

\* ------------------------------------------------------------ re-indexing
\* Two indexers, each with a store of its own that starts empty, index the
\* same transactions: unallocate_inputs, index and commit_outputs on a
\* writing Updater, each run with the iteration orders of its own HashMaps.
ReindexMessages(db) ==
    {Err(Flaw("NonGlittrMessage")),
     CreationMessage(FreeMintContract(Some(2), 1, 0)),
     CreationMessage(FreeMintContract(None, 2, 0))}
    \cup {MintMessage(c, 0) : c \in DOMAIN db.message}

IndexTwice ==
    /\ pc = "idle"
    /\ NextTxid(database) <= MaxReindex
    /\ \E input \in InputChoices(database), message \in ReindexMessages(database) :
         /\ database' \in ProcessTx(database, input, Carrier, message)
         /\ database2' \in ProcessTx(database2, input, Carrier, message)
    /\ before' = database'
    /\ UNCHANGED <<is_read_only, unallocated_inputs, allocated_outputs, pc, tx,
                   block_tx, outcome, ntx, call>>

NextReindex == IndexTwice

SpecReindex == InitFrom({EmptyDatabase}) /\ [][NextReindex]_vars

\* -------------------------------------------------------------- observations
\* The balance of contract c stored under an outpoint of db.
StoredBalance(db, outpoint, c) ==
    MapGetOr(get_asset_list(NewUpdater(db, TRUE), outpoint), c, 0)

RECURSIVE SumStored(_, _, _)
SumStored(db, outpoints, c) ==
    IF outpoints = {} THEN 0
    ELSE LET o == CHOOSE x \in outpoints : TRUE
         IN StoredBalance(db, o, c) + SumStored(db, outpoints \ {o}, c)

\* The amount of c held by the pools whose keys are in pools.
RECURSIVE SumPools(_, _, _)
SumPools(db, pools, c) ==
    IF pools = {} THEN 0
    ELSE LET k == CHOOSE x \in pools : TRUE
         IN MapGetOr(db.pool_data[k].amounts, c, 0) + SumPools(db, pools \ {k}, c)

\* The contract created under id c, if an unflawed creation is stored there.
ContractOf(db, c) ==
    LET m == get_message(NewUpdater(db, TRUE), c)
    IN IF m.ok /\ m.v.contract_creation.some
       THEN Some(m.v.contract_creation.v.contract_type)
       ELSE None

\* minted_supply(c): a free mint's data counts its mints, each of
\* amount_per_mint; a mint-burn asset's data holds the supply itself.
MintedSupply(db, c) ==
    LET contract == ContractOf(db, c)
        data == get_asset_contract_data(NewUpdater(db, TRUE), c)
    IN IF ~contract.some \/ ~data.found THEN 0
       ELSE IF contract.v.kind = "free_mint"
       THEN data.value.minted * contract.v.amount_per_mint
       ELSE IF contract.v.kind = "mba" THEN data.value.minted_supply
       ELSE 0

BurnedSupply(db, c) ==
    LET contract == ContractOf(db, c)
        data == get_asset_contract_data(NewUpdater(db, TRUE), c)
    IN IF contract.some /\ data.found /\ contract.v.kind = "mba"
       THEN data.value.burned_supply
       ELSE 0

Circulating(db, c) ==
    SumStored(db, DOMAIN db.asset_list, c) + SumPools(db, DOMAIN db.pool_data, c)

Conserved(db) ==
    \A c \in DOMAIN db.message :
        Circulating(db, c) = MintedSupply(db, c) - BurnedSupply(db, c)

\* The per-contract state of the store: asset contract data and pool data
\* (no handler of the source writes vesting data).
ContractState(db) ==
    [asset_contract_data |-> db.asset_contract_data, pool_data |-> db.pool_data]

\* A transaction has been fully processed by the writing Updater.
Processed == pc = "idle" /\ tx # NoTx /\ ~is_read_only

\* ------------------------------------------------------------------ claims
\* C1: after any sequence of fully processed transactions, for every
\* contract the balances stored under outpoints plus the amounts held in
\* pools equal minted_supply - burned_supply.
C1_Conservation == pc = "idle" => Conserved(database)

\* C2: a transaction whose outcome carries a flaw leaves the per-contract
\* state of the store (asset contract data, pool data) as it was before the
\* transaction.
C2_FlawLeavesContractState ==
    (Processed /\ outcome.flaw # NoFlaw) =>
        ContractState(database) = ContractState(before)

\* The mint call of the transaction being processed, when its message is one.
IsMintCall ==
    /\ outcome.message.some
    /\ outcome.message.v.contract_call.some
    /\ outcome.message.v.contract_call.v.call_type.kind = "mint"
    /\ ~outcome.message.v.transfer.some
    /\ ~outcome.message.v.contract_creation.some

MintedCount(db, c) == get_free_mint_data(NewUpdater(db, TRUE), c).minted

\* C3: the minted supply of a free-mint contract with a supply cap never
\* exceeds the cap; a mint that brings it exactly to the cap is not refused
\* and counts, and a mint that would take it above the cap yields
\* SupplyCapExceeded and leaves the minted supply unchanged.
C3_SupplyCap ==
    /\ \A c \in DOMAIN database.message :
         LET contract == ContractOf(database, c)
         IN (contract.some /\ contract.v.kind = "free_mint" /\ contract.v.supply_cap.some)
              => MintedSupply(database, c) <= contract.v.supply_cap.v
    /\ (pc = "indexed" /\ IsMintCall) =>
         LET c == outcome.message.v.contract_call.v.contract
             contract == ContractOf(before, c)
         IN (contract.some /\ contract.v.kind = "free_mint" /\ contract.v.supply_cap.some
               /\ contract.v.live_time <= block_tx[1])
              => LET cap == contract.v.supply_cap.v
                     next_supply == MintedSupply(before, c) + contract.v.amount_per_mint
                 IN /\ next_supply = cap =>
                          /\ outcome.flaw # Flaw("SupplyCapExceeded")
                          /\ (outcome.flaw = NoFlaw /\ ~is_read_only)
                               => MintedSupply(database, c) = cap
                    /\ next_supply > cap =>
                          /\ outcome.flaw = Flaw("SupplyCapExceeded")
                          /\ MintedCount(database, c) = MintedCount(before, c)

\* A mint of A at its cap has been refused by the writing Updater.
C3_Witness ==
    /\ pc = "indexed" /\ IsMintCall /\ ~is_read_only
    /\ outcome.message.v.contract_call.v.contract = ContractA
    /\ outcome.flaw = Flaw("SupplyCapExceeded")
    /\ MintedSupply(database, ContractA) = 2

\* C4: no call on a read-only Updater (unallocate_inputs, index with its
\* mint, burn, commit_outputs) changes any key of the store.
C4_ReadOnlyWritesNothing == [][is_read_only' => database' = database]_vars

\* A read-only Updater has unallocated an input that holds balances, minted
\* without a flaw and committed.
C4_Witness ==
    /\ pc = "idle" /\ is_read_only /\ IsMintCall
    /\ outcome.flaw = NoFlaw
    /\ \E i \in 1..Len(tx.input) : tx.input[i] \in DOMAIN database.asset_list

\* The inputs of the transaction being processed.
Inputs == {tx.input[i] : i \in 1..Len(tx.input)}

\* C10: after unallocate_inputs on a writing Updater the unallocated bucket
\* holds, per contract, the sum of the balances that were stored under the
\* inputs' outpoints, no asset-list record remains for an input, and an input
\* without a record contributes nothing.
C10_InputsUnallocated ==
    (pc = "unallocated" /\ ~is_read_only) =>
        /\ \A c \in DOMAIN before.message \cup {UnknownContract} :
             MapGetOr(unallocated_inputs.asset_list, c, 0) = SumStored(before, Inputs, c)
        /\ \A c \in DOMAIN unallocated_inputs.asset_list :
             \E o \in Inputs \cap DOMAIN before.asset_list :
                c \in DOMAIN get_asset_list(NewUpdater(before, TRUE), o)
        /\ \A o \in Inputs : o \notin DOMAIN database.asset_list
        /\ \A o \in DOMAIN before.asset_list \ Inputs :
             /\ o \in DOMAIN database.asset_list
             /\ database.asset_list[o] = before.asset_list[o]
        /\ allocated_outputs = EmptyMap

\* Two inputs that both held A have been unallocated.
C10_Witness ==
    /\ pc = "unallocated" /\ ~is_read_only
    /\ Cardinality(Inputs \cap DOMAIN before.asset_list) = 2
    /\ \A o \in Inputs : StoredBalance(before, o, ContractA) = 1
    /\ MapGetOr(unallocated_inputs.asset_list, ContractA, 0) = 2

\* commit_outputs of the writing Updater is the step being taken.
Committing == pc = "indexed" /\ pc' = "idle" /\ ~is_read_only

AllOpReturn(t) == \A i \in 1..Len(t.output) : t.output[i].op_return

\* f is the index of the first output of t that is not OP_RETURN.
IsFirstSpendable(t, f) ==
    /\ f + 1 \in 1..Len(t.output)
    /\ ~t.output[f + 1].op_return
    /\ \A j \in 1..f : t.output[j].op_return

AllocatedBalance(allocations, vout, c) ==
    IF vout \in DOMAIN allocations THEN MapGetOr(allocations[vout].asset_list, c, 0) ELSE 0

ResetDone ==
    /\ unallocated_inputs' = DefaultAllocation
    /\ allocated_outputs' = EmptyMap

\* The asset-list records of the outpoints not in written are left alone.
OtherRecordsKept(written) ==
    /\ DOMAIN database'.asset_list \ written = DOMAIN database.asset_list \ written
    /\ \A o \in DOMAIN database.asset_list \ written :
         database'.asset_list[o] = database.asset_list[o]

\* C8: with an output that is not OP_RETURN, commit_outputs moves every
\* balance left in the unallocated bucket to the first such output, persists
\* each allocated output's asset list under Outpoint{txid, vout}, and leaves
\* the unallocated bucket and the allocated outputs empty.
C8_CommitToFallback ==
    [][(Committing /\ ~AllOpReturn(tx)) =>
         \E f \in 0..(Len(tx.output) - 1) :
            /\ IsFirstSpendable(tx, f)
            /\ LET moved == unallocated_inputs.asset_list # EmptyMap
                            \/ unallocated_inputs.spec_owned # <<>>
                   vouts == DOMAIN allocated_outputs \cup (IF moved THEN {f} ELSE {})
                   written == {Outpoint(tx.txid, vout) : vout \in vouts}
               IN /\ \A vout \in vouts :
                       /\ Outpoint(tx.txid, vout) \in DOMAIN database'.asset_list
                       /\ \A c \in DOMAIN database.message \cup {UnknownContract} :
                            StoredBalance(database', Outpoint(tx.txid, vout), c)
                              = AllocatedBalance(allocated_outputs, vout, c)
                                + (IF vout = f
                                   THEN MapGetOr(unallocated_inputs.asset_list, c, 0)
                                   ELSE 0)
                  /\ OtherRecordsKept(written)
            /\ ResetDone]_vars

\* A transaction whose first output is OP_RETURN has been committed: the
\* balance its input held sits on output 1.
C8_Witness ==
    /\ Processed
    /\ Len(tx.output) = 2 /\ tx.output[1].op_return /\ ~tx.output[2].op_return
    /\ \E c \in DOMAIN database.message :
         /\ SumStored(before, Inputs, c) > 0
         /\ StoredBalance(database, Outpoint(tx.txid, 1), c) = SumStored(before, Inputs, c)

\* C9: when every output is OP_RETURN, commit_outputs writes no record for
\* the balances left in the unallocated bucket, persists the explicitly
\* allocated outputs only, and still resets the transaction-scoped state.
C9_CommitAllOpReturn ==
    [][(Committing /\ AllOpReturn(tx)) =>
         LET written == {Outpoint(tx.txid, vout) : vout \in DOMAIN allocated_outputs}
         IN /\ \A vout \in DOMAIN allocated_outputs :
                 /\ Outpoint(tx.txid, vout) \in DOMAIN database'.asset_list
                 /\ \A c \in DOMAIN database.message \cup {UnknownContract} :
                      StoredBalance(database', Outpoint(tx.txid, vout), c)
                        = AllocatedBalance(allocated_outputs, vout, c)
            /\ OtherRecordsKept(written)
            /\ ResetDone]_vars

\* A transfer has allocated part of a balance to an OP_RETURN output of a
\* transaction without any other output: that part is stored, the rest of
\* the input's balance is stored nowhere.
C9_Witness ==
    /\ Processed
    /\ AllOpReturn(tx)
    /\ outcome.message.some /\ outcome.message.v.transfer.some
    /\ \E c \in DOMAIN database.message :
         /\ StoredBalance(database, Outpoint(tx.txid, 0), c) = 1
         /\ SumStored(before, Inputs, c) = 2
         /\ SumStored(database, DOMAIN database.asset_list, c)
              = SumStored(before, DOMAIN before.asset_list, c) - 1

UnallocatedBalance(bucket, c) == MapGetOr(bucket.asset_list, c, 0)

RECURSIVE SumAllocated(_, _, _)
SumAllocated(allocations, vouts, c) ==
    IF vouts = {} THEN 0
    ELSE LET v == CHOOSE x \in vouts : TRUE
         IN AllocatedBalance(allocations, v, c) + SumAllocated(allocations, vouts \ {v}, c)

\* C7: move_asset_allocation(vout, contract_id, max_amount) debits
\* a = min(max_amount, unallocated balance) from the unallocated bucket and
\* credits a to allocated_outputs[vout]; the contract's total over both is
\* unchanged, nothing changes when a = 0, an unallocated entry that reaches 0
\* is removed, and no other entry is touched.
C7_MoveIsExact ==
    [][call'.name = "move_asset_allocation" =>
         LET vout == call'.vout
             c == call'.contract_id
             balance == UnallocatedBalance(unallocated_inputs, c)
             a == Min(call'.max_amount, balance)
         IN /\ UnallocatedBalance(unallocated_inputs', c) = balance - a
            /\ AllocatedBalance(allocated_outputs', vout, c)
                 = AllocatedBalance(allocated_outputs, vout, c) + a
            /\ UnallocatedBalance(unallocated_inputs', c)
                 + SumAllocated(allocated_outputs', DOMAIN allocated_outputs', c)
               = balance + SumAllocated(allocated_outputs, DOMAIN allocated_outputs, c)
            /\ a = 0 => UNCHANGED <<unallocated_inputs, allocated_outputs>>
            /\ (a > 0 /\ balance = a) => c \notin DOMAIN unallocated_inputs'.asset_list
            /\ \A d \in (AllocContracts \cup {UnknownContract}) \ {c} :
                 /\ UnallocatedBalance(unallocated_inputs', d)
                      = UnallocatedBalance(unallocated_inputs, d)
                 /\ \A v \in AllocVouts :
                      AllocatedBalance(allocated_outputs', v, d)
                        = AllocatedBalance(allocated_outputs, v, d)
            /\ \A v \in AllocVouts \ {vout} :
                 AllocatedBalance(allocated_outputs', v, c)
                   = AllocatedBalance(allocated_outputs, v, c)]_vars

\* A move of at most 1 has left 1 of the contract unallocated and credited
\* an output that held it already.
C7_Witness ==
    /\ call.name = "move_asset_allocation"
    /\ call.max_amount = 1
    /\ UnallocatedBalance(unallocated_inputs, call.contract_id) = 1
    /\ AllocatedBalance(allocated_outputs, call.vout, call.contract_id) = 3

\* C6: two indexing runs of the same transactions from an empty store leave
\* identical stores, value for value in serialized form.
C6_ReindexIdentical == database2 = database

\* C5: unallocate_inputs followed by index returns the same outcome on the
\* read-only Updater of validate_tx as on the writing Updater of the indexer,
\* from the same store state, at the same block height and for the same
\* transaction.
C5_SimulationMatchesIndexing ==
    (pc = "indexed" /\ call.name = "validate_tx" /\ call.message_result.ok)
        => outcome = call.outcome

\* ------------------------------------------------------------ transfers
\* The transfer list of the message that was indexed, when it has one.
IsTransfer ==
    /\ pc = "indexed"
    /\ outcome.message.some
    /\ outcome.message.v.transfer.some

TransferList == outcome.message.v.transfer.v

\* The 0-based positions, ascending, of the entries whose output is not an
\* output of a transaction with n outputs.
OverflowIndices(list, n) ==
    SelectSeq([i \in 1..Len(list) |-> i - 1], LAMBDA k : list[k + 1].output >= n)

\* C11: Updater::transfers reports OutputOverflow(I) where I is exactly the
\* ascending list of the positions of the entries whose output is at or past
\* the number of outputs of the transaction, and reports no flaw exactly when
\* there is no such entry.
C11_OutputOverflowIndices ==
    IsTransfer =>
        outcome.flaw = IF OverflowIndices(TransferList, Len(tx.output)) = <<>>
                       THEN NoFlaw
                       ELSE OutputOverflow(OverflowIndices(TransferList, Len(tx.output)))

C11_Witness ==
    /\ IsTransfer
    /\ Len(TransferList) = 2
    /\ TransferList[1].output < Len(tx.output)
    /\ TransferList[2].output = Len(tx.output)
    /\ outcome.flaw = OutputOverflow(<<1>>)

\* What entry k of the list receives of contract c when the entries are
\* served in list order from a bucket holding bal, and what the entries
\* before k have received together.
RECURSIVE Received(_, _, _, _, _)
RECURSIVE MovedBefore(_, _, _, _, _)
MovedBefore(list, n, c, bal, k) ==
    IF k <= 1 THEN 0
    ELSE MovedBefore(list, n, c, bal, k - 1) + Received(list, n, c, bal, k - 1)

Received(list, n, c, bal, k) ==
    IF list[k].asset = c /\ list[k].output < n
    THEN Min(list[k].amount, bal - MovedBefore(list, n, c, bal, k))
    ELSE 0

\* What the entries of the list naming output vout receive together.
RECURSIVE ReceivedAt(_, _, _, _, _, _)
ReceivedAt(list, n, c, bal, vout, k) ==
    IF k = 0 THEN 0
    ELSE ReceivedAt(list, n, c, bal, vout, k - 1)
         + (IF list[k].output = vout THEN Received(list, n, c, bal, k) ELSE 0)

\* A transfer message has been indexed and committed by the writing Updater.
TransferProcessed ==
    /\ Processed
    /\ outcome.message.some
    /\ outcome.message.v.transfer.some

\* C12: when some entries of a transfer list overflow, every entry whose
\* output is in range is still applied, and after commit_outputs the part of
\* the input balance that no entry moved is held by the first output that is
\* not OP_RETURN.
C12_PartialTransfer ==
    (TransferProcessed /\ ~AllOpReturn(tx)
       /\ OverflowIndices(TransferList, Len(tx.output)) # <<>>) =>
        \A c \in DOMAIN before.message \cup {UnknownContract} :
          \A vout \in 0..(Len(tx.output) - 1) :
            StoredBalance(database, Outpoint(tx.txid, vout), c)
              = ReceivedAt(TransferList, Len(tx.output), c, SumStored(before, Inputs, c),
                           vout, Len(TransferList))
                + (IF IsFirstSpendable(tx, vout)
                   THEN SumStored(before, Inputs, c)
                        - MovedBefore(TransferList, Len(tx.output), c,
                                      SumStored(before, Inputs, c), Len(TransferList) + 1)
                   ELSE 0)

\* Of an input balance of 2, the entry for output 0 has moved 1, the entry
\* for a missing output has moved nothing, and the remaining 1 sits on the
\* first output that is not OP_RETURN.
C12_Witness ==
    /\ TransferProcessed
    /\ outcome.flaw = OutputOverflow(<<1>>)
    /\ Len(tx.output) = 2 /\ tx.output[1].op_return /\ ~tx.output[2].op_return
    /\ \E c \in DOMAIN before.message :
         /\ SumStored(before, Inputs, c) = 2
         /\ TransferList[1] = TxTypeTransfer(c, 0, 1)
         /\ TransferList[2].asset = c /\ TransferList[2].amount = 1
         /\ StoredBalance(database, Outpoint(tx.txid, 0), c) = 1
         /\ StoredBalance(database, Outpoint(tx.txid, 1), c) = 1

\* C13: the entries of a transfer list are applied in list order against
\* the same unallocated bucket: entry k receives min(amount_k, input balance
\* of its contract minus what the entries before k have moved), so the total
\* moved for a contract never exceeds the input balance of that contract.
C13_TransfersInOrder ==
    IsTransfer =>
        \A c \in DOMAIN before.message \cup {UnknownContract} :
          /\ \A vout \in 0..(Len(tx.output) - 1) :
               AllocatedBalance(allocated_outputs, vout, c)
                 = ReceivedAt(TransferList, Len(tx.output), c,
                              SumStored(before, Inputs, c), vout, Len(TransferList))
          /\ UnallocatedBalance(unallocated_inputs, c)
               = SumStored(before, Inputs, c)
                 - MovedBefore(TransferList, Len(tx.output), c,
                               SumStored(before, Inputs, c), Len(TransferList) + 1)
          /\ SumAllocated(allocated_outputs, DOMAIN allocated_outputs, c)
               <= SumStored(before, Inputs, c)

\* Of an input balance of 2 the first entry has taken the 1 it asked for and
\* the second, asking for 2, the 1 that was left.
C13_Witness ==
    /\ IsTransfer
    /\ Len(tx.output) = 2
    /\ \E c \in DOMAIN before.message :
         /\ SumStored(before, Inputs, c) = 2
         /\ TransferList = <<TxTypeTransfer(c, 0, 1), TxTypeTransfer(c, 1, 2)>>
         /\ AllocatedBalance(allocated_outputs, 0, c) = 1
         /\ AllocatedBalance(allocated_outputs, 1, c) = 1
         /\ UnallocatedBalance(unallocated_inputs, c) = 0

\* -------------------------------------------------------------- pointers
\* p is the index of an output of t that is not OP_RETURN.
ValidPointer(t, p) == p < Len(t.output) /\ ~t.output[p + 1].op_return

\* C14: every operation that credits assets to a caller-supplied output
\* pointer (free mint, purchase mint, burn return) accepts the pointer only
\* if it is below the number of outputs and the output is not OP_RETURN; a
\* pointer at or past the number of outputs gives PointerOverflow, a pointer
\* at an OP_RETURN output gives InvalidPointer, and in both cases nothing is
\* credited.
C14_PointerValidated ==
    /\ (pc = "indexed" /\ IsMintCall
          /\ ContractOf(before, outcome.message.v.contract_call.v.contract).some
          /\ ContractOf(before, outcome.message.v.contract_call.v.contract).v.kind
                \in {"free_mint", "purchase"}) =>
         /\ outcome.flaw = NoFlaw
               => ValidPointer(tx, outcome.message.v.contract_call.v.call_type.option.pointer)
         /\ ~ValidPointer(tx, outcome.message.v.contract_call.v.call_type.option.pointer)
               => Outpoint(tx.txid, outcome.message.v.contract_call.v.call_type.option.pointer)
                    \notin DOMAIN database.asset_list
    /\ (pc = "indexed" /\ call # NoCall /\ call.name = "burn"
          /\ call.burn_option.pointer.some /\ outcome.flaw = NoFlaw) =>
         ValidPointer(tx, call.burn_option.pointer.v)

\* ------------------------------------------------------------- free mint
\* The contract and the pointer of the mint call that was indexed.
MintContract == outcome.message.v.contract_call.v.contract
MintPointer == outcome.message.v.contract_call.v.call_type.option.pointer

\* The writing Updater has accepted a mint call of a free-mint contract.
FreeMinted ==
    /\ tx # NoTx /\ ~is_read_only
    /\ IsMintCall
    /\ outcome.flaw = NoFlaw
    /\ ContractOf(before, MintContract).some
    /\ ContractOf(before, MintContract).v.kind = "free_mint"

\* C17: every successful free mint credits exactly amount_per_mint of the
\* contract to the output at mint_option.pointer of the minting transaction
\* and raises the minted supply of the contract by exactly amount_per_mint:
\* once the transaction is processed the output holds amount_per_mint on top
\* of what the transaction itself moved there.
C17_FreeMintCredits ==
    /\ (pc = "indexed" /\ FreeMinted) =>
         MintedSupply(database, MintContract)
           = MintedSupply(before, MintContract)
             + ContractOf(before, MintContract).v.amount_per_mint
    /\ (pc = "idle" /\ FreeMinted) =>
         StoredBalance(database, Outpoint(tx.txid, MintPointer), MintContract)
           = ContractOf(before, MintContract).v.amount_per_mint
             + (IF IsFirstSpendable(tx, MintPointer)
                THEN SumStored(before, Inputs, MintContract)
                ELSE 0)

\* -------------------------------------------------------------- live time
\* The end_time of a contract, when it has one.
EndTime(contract) ==
    IF "end_time" \in DOMAIN contract THEN contract.end_time ELSE None

\* The call that was indexed is a mint of a free-mint contract, or a burn of
\* a mint-burn asset, and c is the contract called.
IsLiveTimedCall(c) ==
    /\ pc = "indexed"
    /\ outcome.message.some
    /\ outcome.message.v.contract_call.some
    /\ outcome.message.v.contract_call.v.contract = c
    /\ ContractOf(before, c).some
    /\ \/ IsMintCall /\ ContractOf(before, c).v.kind = "free_mint"
       \/ /\ outcome.message.v.contract_call.v.call_type.kind = "burn"
          /\ call # NoCall /\ call.name = "burn" /\ call.contract_id = c
          /\ ContractOf(before, c).v.kind = "mba"

\* The call has changed no contract data and has credited nothing to an
\* output of its transaction.
NothingDone ==
    /\ ContractState(database) = ContractState(before)
    /\ \A vout \in 0..Len(tx.output) :
         Outpoint(tx.txid, vout) \notin DOMAIN database.asset_list

\* C18: a mint or burn call at block b against a contract with live_time L
\* and optional end_time E is rejected with LiveTimeNotReached when b < L
\* and with LiveTimeExpired when E is set and b >= E; in both cases no
\* supply counter changes and nothing is credited.
C18_LiveTime ==
    \A c \in DOMAIN before.message :
        IsLiveTimedCall(c) =>
            /\ block_tx[1] < ContractOf(before, c).v.live_time
                  => outcome.flaw = Flaw("LiveTimeNotReached") /\ NothingDone
            /\ (block_tx[1] >= ContractOf(before, c).v.live_time
                  /\ EndTime(ContractOf(before, c).v).some
                  /\ block_tx[1] >= EndTime(ContractOf(before, c).v).v)
                  => outcome.flaw = Flaw("LiveTimeExpired") /\ NothingDone

\* ---------------------------------------------------------- purchase mint
\* The minted supply the store holds for a contract: the counter of its
\* asset contract data, 0 when the store holds no data for it.
StoredMintedSupply(db, c) ==
    IF ~get_asset_contract_data(NewUpdater(db, TRUE), c).found THEN 0
    ELSE IF ContractOf(db, c).some /\ ContractOf(db, c).v.kind = "purchase"
    THEN get_asset_contract_data(NewUpdater(db, TRUE), c).value.minted_supply
    ELSE MintedSupply(db, c)

\* The writing Updater has accepted a mint call of a purchase contract.
PurchaseMinted ==
    /\ pc = "indexed" /\ ~is_read_only
    /\ IsMintCall
    /\ outcome.flaw = NoFlaw
    /\ ContractOf(before, MintContract).some
    /\ ContractOf(before, MintContract).v.kind = "purchase"

\* C20: every successful purchase mint raises the minted supply of the
\* contract by the out_value it credits, so that the minted supply equals
\* the total amount the purchase mints have credited.
C20_PurchaseMintSupply ==
    PurchaseMinted =>
        StoredMintedSupply(database, MintContract)
          = StoredMintedSupply(before, MintContract)
            + StoredBalance(database, Outpoint(tx.txid, MintPointer), MintContract)

\* ------------------------------------------------------------ fixed ratio
\* C19: for a fixed-ratio purchase mint the amount credited to the pointer
\* is floor(received * num / den) for every received value and every ratio
\* of the value range: the intermediate product does not wrap around and the
\* credited amount is not truncated to a narrower integer.
C19_FixedRatioExact ==
    (call.name = "fixed_ratio_done" /\ bytes_value(call.ratio[2]) # 0) =>
        /\ ~call.result.panic
        /\ call.result.credited
             = trim(div_bytes(mul_bytes(call.total_received_value, call.ratio[1]),
                              bytes_value(call.ratio[2]), 0))

\* ------------------------------------------------------------------ codec
\* A message is valid for the codec when it has one of its three parts.
HasPart(m) == m.transfer.some \/ m.contract_creation.some \/ m.contract_call.some

Carriers(t) ==
    {i \in 1..Len(t.output) : is_carrier(instructions(t.output[i].script_pubkey))}

FirstCarrier(t) == CHOOSE i \in Carriers(t) : \A j \in Carriers(t) : i <= j

\* The instructions after the magic prefix in the first carrier.
CarrierTail(t) ==
    SubSeq(instructions(t.output[FirstCarrier(t)].script_pubkey), 3,
           Len(instructions(t.output[FirstCarrier(t)].script_pubkey)))

\* The data of the pushes of the tail, in order.
RECURSIVE Pushed(_)
Pushed(tail) == IF tail = <<>> THEN <<>> ELSE tail[1].bytes \o Pushed(Tail(tail))

\* C16: parse_tx takes its payload only from the first output whose script
\* is OP_RETURN followed by a push of the magic prefix, concatenating the
\* later pushes of that script in order and ignoring all other outputs; a
\* non-push opcode in that tail gives InvalidInstruction, a malformed tail
\* InvalidScript, an empty payload or no carrier NonGlittrMessage, and a
\* payload that decodes with none of transfer, contract_creation,
\* contract_call FailedDeserialization.
C16_ParseTx ==
    (pc \in {"parsed", "parsed_raw"}) =>
        IF Carriers(tx) = {} THEN call.result = Err(Flaw("NonGlittrMessage"))
        ELSE IF \E k \in 1..Len(CarrierTail(tx)) : CarrierTail(tx)[k].kind = "op"
        THEN ~call.result.ok /\ call.result.flaw.kind = "InvalidInstruction"
        ELSE IF \E k \in 1..Len(CarrierTail(tx)) : CarrierTail(tx)[k].kind = "err"
        THEN call.result = Err(Flaw("InvalidScript"))
        ELSE IF Pushed(CarrierTail(tx)) = <<>>
        THEN call.result = Err(Flaw("NonGlittrMessage"))
        ELSE IF deserialize_message(Pushed(CarrierTail(tx))).ok
                /\ HasPart(deserialize_message(Pushed(CarrierTail(tx))).v)
        THEN call.result = Ok(deserialize_message(Pushed(CarrierTail(tx))).v)
        ELSE call.result = Err(Flaw("FailedDeserialization"))

\* Of two carriers the first, whose payload comes in two pushes, has given
\* the message.
C16_Witness ==
    /\ pc = "parsed"
    /\ call.name = "scripts"
    /\ Carriers(tx) = {1, 2}
    /\ Len(CarrierTail(tx)) = 2
    /\ tx.output[2].script_pubkey = Carrying(push_slice(CallPayload))
    /\ call.result = Ok(OpReturnMessage(Some(<<TxTypeTransfer(<<1, 0>>, 0, 1)>>), None, None))

\* ------------------------------------------------------------------ C21
\* The outputs of t that pay a purchase: those to the designated address,
\* or the OP_RETURN outputs for the Burn scheme.
Pays(pbs, output) ==
    IF pbs.transfer_scheme.kind = "burn" THEN is_op_return_index(output)
    ELSE ~is_op_return_index(output) /\ output.address = pbs.transfer_scheme.address

RECURSIVE PaidSum(_, _, _)
PaidSum(pbs, t, i) ==
    IF i > Len(t.output) THEN 0
    ELSE (IF Pays(pbs, t.output[i]) THEN t.output[i].value ELSE 0) + PaidSum(pbs, t, i + 1)

\* What the store holds of contract c under the outpoints of t.
RECURSIVE StoredUnder(_, _, _, _)
StoredUnder(self, t, c, vout) ==
    IF vout > Len(t.output) THEN 0
    ELSE MapGetOr(get_asset_list(self, Outpoint(t.txid, vout)), c, 0)
         + StoredUnder(self, t, c, vout + 1)

\* The purchase contract a successful mint call of the indexed transaction
\* was made against, if it is paid in raw BTC.
RawBtcMinted ==
    /\ pc = "indexed"
    /\ ~is_read_only
    /\ outcome.flaw = NoFlaw
    /\ outcome.message.some
    /\ outcome.message.v.contract_call.some
    /\ outcome.message.v.contract_call.v.call_type.kind = "mint"
    /\ outcome.message.v.contract_call.v.contract \in {ContractR, ContractU}

\* C21: a raw-BTC purchase mint credits the fixed ratio of the sum of the
\* satoshi values of all the outputs that pay (to the designated address,
\* or burn outputs for the Burn scheme).
C21_ReceivedIsSum ==
    RawBtcMinted =>
        LET c == outcome.message.v.contract_call.v.contract
            pbs == get_message(Self, c).v.contract_creation.v.contract_type
        IN StoredUnder(Self, tx, c, 0)
             = (PaidSum(pbs, tx, 1) * pbs.transfer_ratio_type.ratio[1])
                  \div pbs.transfer_ratio_type.ratio[2]

\* ------------------------------------------------------------------ C22
\* The mint option of the mint call the indexed transaction carries.
OracleMintOption == outcome.message.v.contract_call.v.call_type.option

\* The indexed transaction is a mint of O with an oracle message that is
\* signed by the contract's oracle for its asset and names an input of the
\* transaction.
OracleMintIndexed ==
    /\ pc = "indexed"
    /\ outcome.message.some
    /\ outcome.message.v.contract_call.some
    /\ outcome.message.v.contract_call.v.call_type.kind = "mint"
    /\ outcome.message.v.contract_call.v.contract = ContractO
    /\ ContractO \in DOMAIN before.message
    /\ OracleMintOption.oracle_message.some
    /\ LET signed == OracleMintOption.oracle_message.v
           ratio == before.message[ContractO].message.v.contract_creation.v.contract_type
                        .transfer_ratio_type
       IN /\ verify(ratio.pubkey, signed.message, signed.signature)
          /\ signed.message.asset_id = ratio.setting.asset_id
          /\ \E i \in 1..Len(tx.input) : tx.input[i] = signed.message.input_outpoint

\* C22: a mint that relies on an oracle message whose block_height is
\* further than max_staleness from the current block is rejected with
\* OracleMintStale and mints nothing.
C22_OracleStale ==
    (/\ OracleMintIndexed
     /\ AbsDiff(block_tx[1], OracleMintOption.oracle_message.v.message.block_height)
          > before.message[ContractO].message.v.contract_creation.v.contract_type
                .transfer_ratio_type.setting.max_staleness)
    => /\ outcome.flaw = Flaw("OracleMintStale")
       /\ database.asset_list = before.asset_list

\* ------------------------------------------------------------------ C23
\* floor(b * 1000000 / T) and floor(a * share / 1000000), at any width.
ExactShare(b, t) == div_shifted(trim(mul_bytes(b, SCALE_BYTES)), t, low_zeros(t))
ExactReturn(a, share) == div_shifted(trim(mul_bytes(a, share)), SCALE_BYTES, 0)

ExpectedPoolBurn(pool, b, r0, r1) ==
    IF r0 = <<>> \/ r1 = <<>>
    THEN [flaw |-> Flaw("InsufficientOutputAmount"), out_values |-> <<>>, pool |-> pool]
    ELSE [flaw |-> NoFlaw, out_values |-> <<r0, r1>>,
          pool |-> [amounts |-> <<trim(sub_bytes(pool.amounts[1], r0, 0)),
                                  trim(sub_bytes(pool.amounts[2], r1, 0))>>,
                    total_supply |-> trim(sub_bytes(pool.total_supply, b, 0))]]

ExpectedPoolBurnOf(pool, b, share) ==
    ExpectedPoolBurn(pool, b, ExactReturn(pool.amounts[1], share),
                     ExactReturn(pool.amounts[2], share))

\* C23: a proportional burn of b against a pool (a0, a1, T) returns
\* floor(a_i * floor(b * 1000000 / T) / 1000000) of each asset and leaves
\* a_i minus the return and T - b, or yields InsufficientOutputAmount when
\* a return is 0.
C23_ProportionalBurn ==
    (pc = "computed" /\ call.name = "pool_burn_done") =>
        call.result = ExpectedPoolBurnOf(call.pool, call.burned_amount,
                                         ExactShare(call.burned_amount,
                                                    call.pool.total_supply))

\* The worked example: 100 burned against 1000/1000 with a supply of 1000.
C23_Example ==
    (/\ pc = "computed"
     /\ call.name = "pool_burn_done"
     /\ call.pool = [amounts |-> <<<<232, 3>>, <<232, 3>>>>, total_supply |-> <<232, 3>>]
     /\ call.burned_amount = <<100>>)
    => call.result = [flaw |-> NoFlaw, out_values |-> <<<<100>>, <<100>>>>,
                      pool |-> [amounts |-> <<<<132, 3>>, <<132, 3>>>>,
                                total_supply |-> <<132, 3>>]]

\* ------------------------------------------------------------------ C24
\* The stored message under c creates a mint-burn asset that defines
\* return_collateral.
BurnableContract(self, c) ==
    /\ get_message(self, c).ok
    /\ get_message(self, c).v.contract_creation.some
    /\ get_message(self, c).v.contract_creation.v.contract_type.kind = "mba"
    /\ get_message(self, c).v.contract_creation.v.contract_type.return_collateral.some

\* C24: a burn call against anything but a mint-burn asset contract with
\* return_collateral leaves an outcome that carries a flaw.
C24_BurnOnlyReturnCollateral ==
    (pc = "indexed" /\ call.name = "burn" /\ ~BurnableContract(Self, call.contract_id))
        => outcome.flaw # NoFlaw

\* ------------------------------------------------------------------ C25
\* An Account burn got as far as the account: shares of the contract and
\* its account were among the unallocated inputs.
AccountBurned ==
    /\ pc = "indexed"
    /\ call.name = "burn"
    /\ call.account.some
    /\ call.burned_amount > 0

\* The oracle message of the burn option passes the checks made before
\* its ltv is read: it names the outpoint the account came from and, for a
\* contract with an oracle setting, it validates.
AccountOracleAccepted ==
    /\ call.burn_option.oracle_message.some
    /\ call.burn_option.oracle_message.v.message.input_outpoint = Some(AccountOutpoint)
    /\ LET return_collateral ==
               get_message(Self, call.contract_id).v.contract_creation.v
                   .contract_type.return_collateral.v
       IN return_collateral.oracle_setting.some =>
             validate_oracle_message(call.burn_option.oracle_message.v,
                                     return_collateral.oracle_setting.v, block_tx) = NoFlaw

\* The account the burn leaves under pointer_to_key.
RelocatedAccount ==
    LET vout == call.burn_option.pointer_to_key.v
    IN IF /\ vout \in DOMAIN allocated_outputs
          /\ "collateral_accounts" \in DOMAIN allocated_outputs[vout]
          /\ call.contract_id \in DOMAIN allocated_outputs[vout].collateral_accounts
       THEN Some(allocated_outputs[vout].collateral_accounts[call.contract_id])
       ELSE None

\* C25: a successful Account burn has taken ltv and amount_outstanding from
\* an oracle message that names the outpoint the account came from, has
\* burned at least the oracle's out_value and has relocated the account to
\* pointer_to_key; without ltv the flaw is LtvMustBeUpdated, without
\* outstanding OutstandingMustBeUpdated, without pointer_to_key
\* PointerKeyNotFound.
C25_AccountBurn ==
    AccountBurned =>
        /\ outcome.flaw = NoFlaw =>
             /\ AccountOracleAccepted
             /\ call.burn_option.oracle_message.v.message.ltv.some
             /\ call.burn_option.oracle_message.v.message.outstanding.some
             /\ call.burn_option.oracle_message.v.message.out_value.some
             /\ call.burned_amount >= call.burn_option.oracle_message.v.message.out_value.v
             /\ call.burn_option.pointer_to_key.some
             /\ RelocatedAccount =
                  Some([call.account.v EXCEPT
                          !.ltv = call.burn_option.oracle_message.v.message.ltv.v,
                          !.amount_outstanding =
                              call.burn_option.oracle_message.v.message.outstanding.v])
        /\ (AccountOracleAccepted /\ ~call.burn_option.oracle_message.v.message.ltv.some)
             => outcome.flaw = Flaw("LtvMustBeUpdated")
        /\ (/\ AccountOracleAccepted
            /\ call.burn_option.oracle_message.v.message.ltv.some
            /\ ~call.burn_option.oracle_message.v.message.outstanding.some)
             => outcome.flaw = Flaw("OutstandingMustBeUpdated")
        /\ ~call.burn_option.pointer_to_key.some => outcome.flaw # NoFlaw

\* ------------------------------------------------------------------ C26
\* amount_outstanding <= total_collateral_amount * ltv
WithinLtv(account) ==
    account.amount_outstanding * account.ltv[2]
        <= account.total_collateral_amount * account.ltv[1]

\* C26: every collateral account held in an allocated output satisfies
\* amount_outstanding <= total_collateral_amount * ltv.
C26_AccountWithinLtv ==
    \A vout \in DOMAIN allocated_outputs :
        "collateral_accounts" \in DOMAIN allocated_outputs[vout] =>
            \A c \in DOMAIN allocated_outputs[vout].collateral_accounts :
                WithinLtv(allocated_outputs[vout].collateral_accounts[c])

NOT_FOUND == [status |-> "NOT_FOUND"]

tx_result(db, txid) ==
    LET blocktx == get(db, TRANSACTION_TO_BLOCK_TX_PREFIX, txid)
    IN IF ~blocktx.found THEN NOT_FOUND
       ELSE LET message == get(db, MESSAGE_PREFIX, blocktx.value)
            IN IF message.found
               THEN [status |-> "OK", is_valid |-> message.value.flaw = NoFlaw,
                     message |-> message.value, block_tx |-> blocktx.value]
               ELSE NOT_FOUND

get_block_tx(db, btx) ==
    LET message == get(db, MESSAGE_PREFIX, btx)
    IN IF message.found
       THEN [status |-> "OK", is_valid |-> TRUE, message |-> message.value]
       ELSE NOT_FOUND

\* C28: a reader of the store sees the outcome of a transaction, by its
\* txid or by its block:tx key, only after commit_outputs for that
\* transaction has returned: while the writing Updater holds the
\* transaction, both readers answer NOT_FOUND.
C28_VisibleAfterCommit ==
    (pc \in {"unallocated", "indexed"} /\ ~is_read_only) =>
        /\ tx_result(database, tx.txid) = NOT_FOUND
        /\ get_block_tx(database, block_tx) = NOT_FOUND

\* ------------------------------------------------------ referenced contracts
\* A history that leaves every kind of outcome in the store: transaction 1
\* creates the free-mint contract V, 2 is a mint of an unknown contract
\* (stored with the flaw ContractNotFound), 3 a mint of V (no flaw, not a
\* creation), 4 the creation of a purchase contract paid in an unknown glittr
\* asset (a creation stored with ReferencingFlawedBlockTx) and 5 a
\* transaction without a message.
ContractV == BlockTxOf(1)
FlawedCall == BlockTxOf(2)
FlawedCreation == BlockTxOf(4)

PurchaseIn(contract_id) ==
    PurchaseBurnSwap(GlittrAsset(contract_id), TransferSchemeBurn, RatioFixed(1, 1))

ReferenceHistory ==
    <<Block(<<>>, Carrier, CreationMessage(FreeMintContract(Some(2), 1, 0))),
      Block(<<>>, Carrier, MintMessage(UnknownContract, 0)),
      Block(<<>>, Carrier, MintMessage(ContractV, 0)),
      Block(<<>>, Carrier, CreationMessage(PurchaseIn(UnknownContract))),
      Block(<<>>, Plain, Err(Flaw("NonGlittrMessage")))>>

ReferenceOutputs == {Plain, Carrier, <<OpReturnOut>>}

\* Creations and mints that name every stored key, an unknown key and the
\* key of the transaction itself.
ReferenceMessages(self, t) ==
    {Err(Flaw("NonGlittrMessage"))}
    \cup (IF carries_message(t)
          THEN LET ids == DOMAIN self.database.message
                          \cup {UnknownContract, BlockTxOf(t.txid)}
               IN {CreationMessage(PurchaseIn(c)) : c \in ids}
                  \cup {CreationMessage(PurchaseBurnSwap(RawBTC, TransferSchemeBurn,
                                                         RatioFixed(1, 1)))}
                  \cup {MintMessage(c, p) : c \in ids, p \in 0..MaxOut}
          ELSE {})

NextReference ==
    \/ IndexHistory(ReferenceHistory)
    \/ UnallocateInputs(MaxTx, ReferenceOutputs)
    \/ Index(ReferenceMessages(Self, tx))
    \/ CommitOutputs
    \/ Discard

SpecReference == Init /\ [][NextReference]_vars

\* ------------------------------------------------------------------ C29
\* The Updater as index found it: the store before the transaction, its
\* inputs unallocated.
Unallocated == unallocate_inputs(NewUpdater(before, is_read_only), tx)

\* The store held under the key, before the transaction was indexed, an
\* outcome without flaw whose message is a contract creation.
ValidReference(contract_id) ==
    /\ contract_id \in DOMAIN before.message
    /\ before.message[contract_id].flaw = NoFlaw
    /\ before.message[contract_id].message.some
    /\ before.message[contract_id].message.v.contract_creation.some

\* index has handled the creation of a purchase contract paid in a glittr
\* asset.
GlittrPurchaseCreated ==
    /\ pc = "indexed"
    /\ outcome.message.some
    /\ outcome.message.v.contract_creation.some
    /\ outcome.message.v.contract_creation.v.contract_type.kind = "purchase"
    /\ outcome.message.v.contract_creation.v.contract_type.input_asset.kind = "glittr_asset"

\* C29: the creation of a purchase contract paid in the glittr asset
\* (block, tx) succeeds only if the store holds under that key an outcome
\* without flaw whose message is a contract creation; otherwise its flaw is
\* ReferencingFlawedBlockTx, unless an earlier step of index had recorded
\* one.
C29_ReferencedContract ==
    GlittrPurchaseCreated =>
        LET id == outcome.message.v.contract_creation.v.contract_type.input_asset.id
            earlier == index_transfers(Unallocated, tx, outcome.message.v).flaw
        IN /\ outcome.flaw = NoFlaw => ValidReference(id)
           /\ ~ValidReference(id) =>
                outcome.flaw = IF earlier = NoFlaw
                               THEN Flaw("ReferencingFlawedBlockTx") ELSE earlier

\* The writing Updater has indexed a creation that names the flawed creation
\* of transaction 4, and has stored it with ReferencingFlawedBlockTx.
C29_Witness ==
    /\ GlittrPurchaseCreated
    /\ ~is_read_only
    /\ outcome.message.v.contract_creation.v.contract_type.input_asset.id = FlawedCreation
    /\ outcome.flaw = Flaw("ReferencingFlawedBlockTx")
    /\ database.message[block_tx] = outcome

\* ------------------------------------------------------------------ C30
\* index has reached the mint call of the message: no earlier step had
\* recorded a flaw.
MintReached ==
    /\ pc = "indexed"
    /\ outcome.message.some
    /\ outcome.message.v.contract_call.some
    /\ outcome.message.v.contract_call.v.call_type.kind = "mint"
    /\ index_contract_creation(index_transfers(Unallocated, tx, outcome.message.v),
                               outcome.message.v).flaw = NoFlaw

\* The flaw of a mint against a key without a valid contract creation.
MintRejection(contract_id) ==
    IF contract_id \notin DOMAIN before.message THEN Flaw("ContractNotFound")
    ELSE IF before.message[contract_id].flaw # NoFlaw
         THEN before.message[contract_id].flaw
         ELSE Flaw("ContractNotMatch")

\* C30: a mint call against a contract id whose stored outcome is absent,
\* carries a flaw or is not a contract creation mints nothing: its flaw is
\* ContractNotFound, the stored flaw or ContractNotMatch, no asset list and
\* no supply counter of the store changes and no output is credited.
C30_MintNeedsContract ==
    (MintReached /\ ~ValidReference(outcome.message.v.contract_call.v.contract)) =>
        /\ outcome.flaw = MintRejection(outcome.message.v.contract_call.v.contract)
        /\ database.asset_list = Unallocated.database.asset_list
        /\ database.asset_contract_data = before.asset_contract_data
        /\ allocated_outputs =
             index_transfers(Unallocated, tx, outcome.message.v).self.allocated_outputs

\* The writing Updater has indexed a mint against the flawed creation of
\* transaction 4 and has stored it with that creation's flaw.
C30_Witness ==
    /\ MintReached
    /\ ~is_read_only
    /\ outcome.message.v.contract_call.v.contract = FlawedCreation
    /\ outcome.flaw = Flaw("ReferencingFlawedBlockTx")
    /\ database.message[block_tx] = outcome

\* ------------------------------------------------------------------ C31
\* C31: processing a parsed message ends with an outcome (no flaw, or a
\* flaw) and never stops the indexer: no index step ends in a panic.
C31_NeverAborts == pc = "indexed" => outcome.flaw # Panic

\* ------------------------------------------------------------------ C32
\* C32: a burn call that ends in a flaw leaves the unallocated bucket of
\* the transaction as unallocate_inputs filled it: the balance of the
\* burned contract is still in it.
C32_FlawedBurnKeepsBucket ==
    (pc = "indexed" /\ call.name = "burn" /\ outcome.flaw # NoFlaw) =>
        unallocated_inputs = Unallocated.unallocated_inputs

\* ------------------------------------------------------ messages of several parts
\* Messages that combine a transfer, a contract creation and a mint call,
\* indexed after the history of the referenced contracts: the transfer may
\* overflow, the creation may fail its static validation or reference an
\* unknown asset, the mint may name an unknown contract.
PartsTransfers(t) ==
    {None} \cup {Some(<<TxTypeTransfer(ContractV, o, 1)>>) : o \in 0..Len(t.output)}

PartsCreations ==
    {None,
     Some(ContractCreation(FreeMintContract(Some(1), 0, 0))),
     Some(ContractCreation(FreeMintContract(Some(2), 1, 0))),
     Some(ContractCreation(PurchaseIn(UnknownContract)))}

PartsCalls ==
    {None, Some(MintCall(ContractV, MintOption(0))),
     Some(MintCall(UnknownContract, MintOption(0)))}

PartsMessages(self, t) ==
    {Err(Flaw("NonGlittrMessage"))}
    \cup (IF carries_message(t)
          THEN {Ok(OpReturnMessage(tr, cr, ca)) :
                  tr \in PartsTransfers(t), cr \in PartsCreations, ca \in PartsCalls}
               \ {Ok(OpReturnMessage(None, None, None))}
          ELSE {})

NextParts ==
    \/ IndexHistory(ReferenceHistory)
    \/ UnallocateInputs(MaxTx, ReferenceOutputs)
    \/ Index(PartsMessages(Self, tx))
    \/ CommitOutputs
    \/ Discard

SpecParts == Init /\ [][NextParts]_vars

\* ------------------------------------------------------------------ C33
\* The Updater and flaw after the transfer part of the indexed message.
Moved ==
    IF outcome.message.v.transfer.some
    THEN transfers(Unallocated, tx, outcome.message.v.transfer.v)
    ELSE [self |-> Unallocated, flaw |-> NoFlaw]

\* No mint has written: asset lists and contract data of the store are
\* those unallocate_inputs left.
NothingMinted ==
    /\ database.asset_list = Unallocated.database.asset_list
    /\ database.asset_contract_data = before.asset_contract_data

\* C33: index records the first flaw of a message and skips every later
\* part.  With a static validation flaw nothing of the message is executed
\* and the flaw is the static one; with a flaw of the transfers the moves of
\* the transfers stand, the flaw is theirs and no mint is executed; with a
\* flaw of the contract creation no mint is executed either.
C33_FirstFlawStands ==
    (pc = "indexed" /\ outcome.message.some) =>
        /\ validate(outcome.message.v) # NoFlaw =>
             /\ outcome.flaw = validate(outcome.message.v)
             /\ unallocated_inputs = Unallocated.unallocated_inputs
             /\ allocated_outputs = Unallocated.allocated_outputs
             /\ NothingMinted
        /\ (validate(outcome.message.v) = NoFlaw /\ Moved.flaw # NoFlaw) =>
             /\ outcome.flaw = Moved.flaw
             /\ unallocated_inputs = Moved.self.unallocated_inputs
             /\ allocated_outputs = Moved.self.allocated_outputs
             /\ NothingMinted
        /\ (/\ validate(outcome.message.v) = NoFlaw
            /\ Moved.flaw = NoFlaw
            /\ GlittrPurchaseCreated
            /\ ~ValidReference(outcome.message.v.contract_creation.v
                                   .contract_type.input_asset.id)) =>
             /\ outcome.flaw = Flaw("ReferencingFlawedBlockTx")
             /\ NothingMinted

\* The writing Updater has indexed a message whose transfer overflowed and
\* whose mint of V, which had succeeded on its own, was skipped.
C33_Witness ==
    /\ pc = "indexed"
    /\ ~is_read_only
    /\ outcome.message.some
    /\ outcome.message.v.transfer.some
    /\ outcome.message.v.contract_call = Some(MintCall(ContractV, MintOption(0)))
    /\ outcome.flaw = OutputOverflow(<<0>>)
    /\ mint(Unallocated, tx, block_tx, ContractV, MintOption(0), <<>>).flaw = NoFlaw
    /\ NothingMinted

\* ------------------------------------------------------------------ C34
\* The writing Updater has burned shares of the pool P without flaw.
PoolBurnSucceeded ==
    /\ pc = "indexed"
    /\ call.name = "burn"
    /\ call.contract_id = ContractP
    /\ ~is_read_only
    /\ outcome.flaw = NoFlaw
    /\ ContractP \in DOMAIN before.pool_data

\* C34: after a successful proportional burn, what the pool lost of each of
\* its two assets is what the outputs of the transaction were credited
\* with, whatever the burn option, one without pointer included.
C34_BurnReturnsCredited ==
    PoolBurnSucceeded =>
        \A c \in {ContractA, ContractB} :
            before.pool_data[ContractP].amounts[c] - database.pool_data[ContractP].amounts[c]
                = SumAllocated(allocated_outputs, DOMAIN allocated_outputs, c)

\* ------------------------------------------------------------------ C35
\* The proportional burn has been computed and has returned amounts.
PoolBurnReturned ==
    /\ pc = "computed"
    /\ call.name = "pool_burn_done"
    /\ call.result.flaw = NoFlaw

\* C35: a proportional burn never returns more of a pool asset than the
\* pool held, whatever the burned amount, one above the total supply
\* included: return_i <= amounts[i].
C35_ReturnWithinPool ==
    PoolBurnReturned =>
        \A i \in 1..2 : ~less_bytes(call.pool.amounts[i], call.result.out_values[i])

\* ------------------------------------------------------------------ C36
\* C36: a successful proportional burn of at most the total supply does not
\* lower the pool amount that backs each remaining share:
\* amounts[i] after * total_supply before >= amounts[i] before * total_supply after.
C36_ShareValueKept ==
    PoolBurnReturned =>
        \A i \in 1..2 :
            ~less_bytes(trim(mul_bytes(call.result.pool.amounts[i], call.pool.total_supply)),
                        trim(mul_bytes(call.pool.amounts[i], call.result.pool.total_supply)))

\* A burn of half the supply of a pool holding 3 of each asset: the return
\* of 1 is rounded down from 1.5 and the pool keeps 2 for the remaining
\* share.
C36_Witness ==
    /\ PoolBurnReturned
    /\ call.pool = [amounts |-> <<<<3>>, <<3>>>>, total_supply |-> <<2>>]
    /\ call.burned_amount = <<1>>
    /\ call.result.out_values = <<<<1>>, <<1>>>>
    /\ call.result.pool = [amounts |-> <<<<2>>, <<2>>>>, total_supply |-> <<1>>]

\* ------------------------------------------------------------------ C37
\* C37: once the writing Updater has committed a transaction, the store
\* holds no asset balance under an outpoint of the transaction whose output
\* is OP_RETURN, whatever outputs its transfers and pointers named.
C37_NothingOnOpReturn ==
    Processed =>
        \A i \in 1..Len(tx.output) :
            is_op_return_index(tx.output[i]) =>
                \A c \in DOMAIN database.message :
                    StoredBalance(database, Outpoint(tx.txid, i - 1), c) = 0

\* ------------------------------------------------------------------ C38
\* The committed transaction has minted to the output its input balances
\* fell back to.
MintedOntoFallback ==
    /\ pc = "idle"
    /\ FreeMinted
    /\ IsFirstSpendable(tx, MintPointer)
    /\ \E c \in DOMAIN before.message : SumStored(before, Inputs, c) > 0

\* C38: when a transaction mints to output p and its input balances go to
\* the same output, the asset list stored under (txid, p) after
\* commit_outputs holds, for every contract, the minted amount and the moved
\* amount together.
C38_MintAndMovedTogether ==
    MintedOntoFallback =>
        \A c \in DOMAIN before.message :
            StoredBalance(database, Outpoint(tx.txid, MintPointer), c)
                = (IF c = MintContract
                   THEN ContractOf(before, MintContract).v.amount_per_mint ELSE 0)
                  + SumStored(before, Inputs, c)

\* The two writes in the other order, the txid first.
index_puts_txid_first(db, btx, t, out) ==
    <<put(db, TRANSACTION_TO_BLOCK_TX_PREFIX, t.txid, btx),
      put(put(db, MESSAGE_PREFIX, btx, out), TRANSACTION_TO_BLOCK_TX_PREFIX, t.txid, btx)>>

\* ------------------------------------------------- the indexer and a reader
\* index ends with two writes, each under a lock of its own: the outcome
\* under the block:tx key, then the block:tx key under the txid.  The list
\* holds the store after each write.
index_puts(db, btx, t, out) ==
    <<put(db, MESSAGE_PREFIX, btx, out),
      put(put(db, MESSAGE_PREFIX, btx, out), TRANSACTION_TO_BLOCK_TX_PREFIX, t.txid, btx)>>

\* index up to its writes of the outcome.
index_before_puts(self, btx, t, message_result, ord) ==
    LET r == IF message_result.ok
             THEN index_message(self, t, btx, message_result.v, ord)
             ELSE [self |-> self, flaw |-> message_result.flaw]
    IN [self |-> r.self,
        outcome |-> MessageDataOutcome(
                        IF message_result.ok THEN Some(message_result.v) ELSE None,
                        r.flaw)]

\* The second read of tx_result, of the outcome under the block:tx key the
\* first read returned.
tx_result_message(db, blocktx) ==
    IF ~blocktx.found THEN NOT_FOUND
    ELSE LET message == get(db, MESSAGE_PREFIX, blocktx.value)
         IN IF message.found
            THEN [status |-> "OK", is_valid |-> message.value.flaw = NoFlaw,
                  message |-> message.value, block_tx |-> blocktx.value]
            ELSE NOT_FOUND

\* index through its first write.
IndexPutOutcome(messages) ==
    /\ pc = "unallocated"
    /\ \E message_result \in messages :
         \E ord \in MintOrders(Self, tx, message_result) :
           LET r == index_before_puts(Self, block_tx, tx, message_result, ord)
           IN /\ Install([r.self EXCEPT !.database =
                            IF ~is_read_only
                            THEN index_puts(@, block_tx, tx, r.outcome)[1] ELSE @])
              /\ outcome' = r.outcome
    /\ pc' = "outcome_put"
    /\ UNCHANGED <<is_read_only, tx, block_tx, ntx, before, call, database2>>

\* The second write of index, after which index returns.
IndexPutTxid ==
    /\ pc = "outcome_put"
    /\ database' = IF ~is_read_only
                   THEN index_puts(database, block_tx, tx, outcome)[2] ELSE database
    /\ pc' = "indexed"
    /\ UNCHANGED <<is_read_only, unallocated_inputs, allocated_outputs, tx, block_tx,
                   outcome, ntx, before, call, database2>>

\* The txids a reader asks for: every transaction of the model and one more.
ReaderTxids == 1..(Len(ReferenceHistory) + MaxTx + 1)

\* A request GET /tx/{txid} arrives and tx_result makes its first read.
ReadTxid ==
    /\ call.name \in {"none", "tx_result_done"}
    /\ \E txid \in ReaderTxids :
         call' = [name |-> "tx_result", txid |-> txid,
                  blocktx |-> get(database, TRANSACTION_TO_BLOCK_TX_PREFIX, txid)]
    /\ UNCHANGED <<database, is_read_only, unallocated_inputs, allocated_outputs, pc,
                   tx, block_tx, outcome, ntx, before, database2>>

\* tx_result makes its second read and answers.
ReadOutcome ==
    /\ call.name = "tx_result"
    /\ call' = [name |-> "tx_result_done", txid |-> call.txid, blocktx |-> call.blocktx,
                response |-> tx_result_message(database, call.blocktx)]
    /\ UNCHANGED <<database, is_read_only, unallocated_inputs, allocated_outputs, pc,
                   tx, block_tx, outcome, ntx, before, database2>>

ReaderMessages(self, t) ==
    {Err(Flaw("NonGlittrMessage"))}
    \cup (IF carries_message(t)
          THEN {MintMessage(c, 0) : c \in {ContractV, UnknownContract}}
          ELSE {})

NextReader ==
    \/ IndexHistory(ReferenceHistory)
    \/ UnallocateInputs(MaxTx, ReferenceOutputs)
    \/ IndexPutOutcome(ReaderMessages(Self, tx))
    \/ IndexPutTxid
    \/ CommitOutputs
    \/ Discard
    \/ ReadTxid
    \/ ReadOutcome

SpecReader == Init /\ [][NextReader]_vars

\* ------------------------------------------------------------------ C39
\* C39: in every interleaving of the indexer's writes with the reads of
\* tx_result, a txid whose entry in the txid-to-blocktx table is visible has
\* its outcome visible under that block:tx key, and a tx_result whose first
\* read found the entry never answers NOT_FOUND.
C39_MappingImpliesOutcome ==
    /\ \A txid \in ReaderTxids :
         LET blocktx == get(database, TRANSACTION_TO_BLOCK_TX_PREFIX, txid)
         IN blocktx.found => get(database, MESSAGE_PREFIX, blocktx.value).found
    /\ (call.name = "tx_result_done" /\ call.blocktx.found) =>
          call.response # NOT_FOUND

\* A reader asked for the transaction in the writer's hands between index
\* and commit_outputs, found its entry and answered with the outcome.
C39_Witness ==
    /\ pc = "indexed"
    /\ ~is_read_only
    /\ call.name = "tx_result_done"
    /\ call.txid = tx.txid
    /\ call.blocktx.found
    /\ call.response # NOT_FOUND
    /\ call.response.message = outcome

\* ------------------------------------------------------------------ C40
\* C40: for every stored outcome the two readers agree: get_block_tx on the
\* block:tx key and tx_result on the txid of the same transaction report
\* the same is_valid, false when the outcome carries a flaw and true
\* otherwise.
C40_SameIsValid ==
    \A txid \in DOMAIN database.tx_to_blocktx :
        LET by_txid == tx_result(database, txid)
            by_block == get_block_tx(database, database.tx_to_blocktx[txid])
        IN (by_txid.status = "OK" /\ by_block.status = "OK") =>
              /\ by_block.is_valid = by_txid.is_valid
              /\ by_block.is_valid = (by_block.message.flaw = NoFlaw)

====
